---- MODULE Spec2Model ----
(***************************************************************************)
(* Extraction-and-classification pipeline of the SAP dashboard backend:    *)
(* the archive unpacker, the four XML extractors and their processors, as  *)
(* driven by the per-flow loop of syncPackageIntegrationFlows.             *)
(*                                                                         *)
(* JavaScript values are modelled as follows.  A string is a TLA+ string;  *)
(* undefined, null and '' are all "" where the code only tests truthiness. *)
(* An object with dynamic keys is a sequence of [key, val] pairs in        *)
(* insertion order; val is Str(s) or Bool(b).  An xml2js text node         *)
(* { _: 'x' } is the string "x".                                           *)
(***************************************************************************)
EXTENDS Integers, Sequences, FiniteSets, TLC

VARIABLES
  flowsData,           \* archives of the package still to be processed
  pc,                  \* position inside the per-flow loop body
  zipBuffer,           \* archive of the flow being processed
  flowDetails,         \* result of fetchIntegrationFlowDetails: [id, parsedXml]
  adapters,            \* extractAdaptersFromXml result
  securityMechanisms,  \* extractSecurityFromXml result
  errorHandling,       \* extractErrorHandlingFromXml result
  persistence,         \* extractPersistenceFromXml result
  processedSecurity,   \* processSecurityMechanisms result
  processedAdapters,   \* processAdapters result
  processedErrorHandling,
  processedPersistence,
  iflowRecords,        \* what has been handed to the storage layer, per flow
  housekeepingFiles,   \* files written to the debug directory
  flowLog,             \* one entry per flow the loop has left: [flowData, outcome]
  now,                 \* Date.now(), in minutes
  configured,          \* the environment passes validateConfiguration
  circuitBreaker,      \* authService: [failureCount, lastFailureTime, isOpen, openUntil]
  tokenCache,          \* authService: [accessToken, expiresAt]
  tokenRequests,       \* token requests sent so far; a new token is named by their number
  tokenCalls,          \* getOAuthToken calls made by callers other than fetchFromApi
  lastCall,            \* the latest getOAuthToken call: when, outcome, breaker before/after
  openedAt,            \* when the breaker last went from closed to open
  fetch                \* the fetchFromApi call: [stage, token, requests]

vars == <<flowsData, pc, zipBuffer, flowDetails, adapters, securityMechanisms,
          errorHandling, persistence, processedSecurity, processedAdapters,
          processedErrorHandling, processedPersistence, iflowRecords,
          housekeepingFiles, flowLog, now, configured, circuitBreaker, tokenCache,
          tokenRequests, tokenCalls, lastCall, openedAt, fetch>>

pipelineVars == <<flowsData, pc, zipBuffer, flowDetails, adapters, securityMechanisms,
                  errorHandling, persistence, processedSecurity, processedAdapters,
                  processedErrorHandling, processedPersistence, iflowRecords,
                  housekeepingFiles, flowLog>>

apiVars == <<now, configured, circuitBreaker, tokenCache, tokenRequests, tokenCalls,
             lastCall, openedAt, fetch>>

-----------------------------------------------------------------------------
(* Bounds *)

MaxFlows == 2        \* message-flow fragments per document
MaxRuns == 3         \* flows of a package in the multi-run specification

-----------------------------------------------------------------------------
(* JavaScript string primitives *)

Min(S) == CHOOSE m \in S : \A n \in S : m <= n
Max(S) == CHOOSE m \in S : \A n \in S : m >= n

includes(s, sub) ==
  \E i \in 1..(Len(s) - Len(sub) + 1) : SubSeq(s, i, i + Len(sub) - 1) = sub

endsWith(s, suffix) ==
  /\ Len(s) >= Len(suffix)
  /\ SubSeq(s, Len(s) - Len(suffix) + 1, Len(s)) = suffix

UpperChars == <<"A","B","C","D","E","F","G","H","I","J","K","L","M",
                "N","O","P","Q","R","S","T","U","V","W","X","Y","Z">>
LowerChars == <<"a","b","c","d","e","f","g","h","i","j","k","l","m",
                "n","o","p","q","r","s","t","u","v","w","x","y","z">>

toLowerChar(c) ==
  IF \E k \in 1..26 : UpperChars[k] = c
    THEN LowerChars[CHOOSE k \in 1..26 : UpperChars[k] = c]
    ELSE c

RECURSIVE toLowerCase(_)
toLowerCase(s) ==
  IF s = "" THEN "" ELSE toLowerChar(SubSeq(s, 1, 1)) \o toLowerCase(SubSeq(s, 2, Len(s)))

RECURSIVE trimStart(_)
trimStart(s) ==
  IF s # "" /\ SubSeq(s, 1, 1) = " " THEN trimStart(SubSeq(s, 2, Len(s))) ELSE s

RECURSIVE trimEnd(_)
trimEnd(s) ==
  IF s # "" /\ SubSeq(s, Len(s), Len(s)) = " " THEN trimEnd(SubSeq(s, 1, Len(s) - 1)) ELSE s

trim(s) == trimEnd(trimStart(s))

substring(s, from, to) == SubSeq(s, from + 1, IF to < Len(s) THEN to ELSE Len(s))

RECURSIVE repeat(_, _)
repeat(s, n) ==
  IF n = 0 THEN ""
  ELSE IF n % 2 = 0 THEN LET half == repeat(s, n \div 2) IN half \o half
  ELSE s \o repeat(s, n - 1)

(* JavaScript objects with dynamic keys *)

Str(x) == [s |-> x]
Bool(x) == [b |-> x]

hasKey(obj, k) == \E i \in 1..Len(obj) : obj[i].key = k

objSet(obj, k, v) ==
  IF hasKey(obj, k)
    THEN [i \in 1..Len(obj) |-> IF obj[i].key = k THEN [key |-> k, val |-> v] ELSE obj[i]]
    ELSE Append(obj, [key |-> k, val |-> v])

objGet(obj, k) == obj[CHOOSE i \in 1..Len(obj) : obj[i].key = k].val

RECURSIVE Concat(_)
Concat(seqs) == IF seqs = <<>> THEN <<>> ELSE Head(seqs) \o Concat(Tail(seqs))

-----------------------------------------------------------------------------
(* Parsed documents.  NullXml is the null that extractXmlFromZip returns;  *)
(* a document whose root is not bpmn2:definitions has definitions = FALSE. *)
(* An extension block is "none" (absent), "single" (one ifl:property,      *)
(* which xml2js with explicitArray:false delivers as a bare object) or     *)
(* "list" (an array of properties, possibly empty).                        *)

NullXml == [kind |-> "null"]

P(k, v) == [key |-> k, value |-> v]

ExtNone == [shape |-> "none", props |-> <<>>]
Ext(props) == [shape |-> IF Len(props) = 1 THEN "single" ELSE "list", props |-> props]

(* services/xmlExtraction/baseExtractor.js *)

getPropertyValue(propertyArray, targetKey) ==
  LET hits == {i \in 1..Len(propertyArray) : propertyArray[i].key = targetKey}
  IN  IF hits = {} THEN "" ELSE propertyArray[Min(hits)].value

getMessageFlows(px) ==
  IF px.kind = "null" \/ ~px.definitions THEN <<>>
  ELSE IF ~px.collaboration THEN <<>>
  ELSE px.messageFlows

getCollaborationProperties(px) ==
  IF px.kind = "null" \/ ~px.definitions THEN <<>>
  ELSE IF ~px.collaboration \/ px.collaborationExt.shape = "none" THEN <<>>
  ELSE px.collaborationExt.props

(* properties = ext['ifl:property'] || []; a bare object is wrapped *)
flowProperties(flow) == flow.ext.props

FileExt == ".iflw"

(* variant: the last matching entry instead of the first *)
findIflwEntry_Last(zipEntries) ==
  LET hits == {i \in 1..Len(zipEntries) : endsWith(zipEntries[i].entryName, FileExt)}
  IN  IF hits = {} THEN 0 ELSE Max(hits)

findIflwEntry(zipEntries) ==
  LET hits == {i \in 1..Len(zipEntries) : endsWith(zipEntries[i].entryName, FileExt)}
  IN  IF hits = {} THEN 0 ELSE Min(hits)

(* extractXmlFromZip: zipWriteOk / xmlWriteOk say whether fs.writeFileSync *)
(* to the debug directory succeeds; a throw lands in the outer catch.      *)
extractXmlFromZip(zip, zipWriteOk, xmlWriteOk) ==
  IF ~zipWriteOk THEN NullXml
  ELSE IF ~zip.valid THEN NullXml
  ELSE LET e == findIflwEntry(zip.entries) IN
    IF e = 0 THEN NullXml
    ELSE IF ~zip.entries[e].readable THEN NullXml
    ELSE IF ~xmlWriteOk THEN NullXml
    ELSE IF zip.entries[e].content.kind = "malformed" THEN NullXml
    ELSE zip.entries[e].content

housekeepingWrites(zip, flowId, zipWriteOk, xmlWriteOk) ==
  IF ~zipWriteOk THEN {}
  ELSE {flowId \o ".zip"} \cup
       (IF zip.valid /\ findIflwEntry(zip.entries) # 0
           /\ zip.entries[findIflwEntry(zip.entries)].readable /\ xmlWriteOk
          THEN {flowId \o ".iflw"} ELSE {})

-----------------------------------------------------------------------------
(* services/xmlExtraction/adapterExtractor.js *)

Digits == <<"0","1","2","3","4","5","6","7","8","9">>

RECURSIVE numToString(_)
numToString(n) ==
  IF n < 10 THEN Digits[n + 1] ELSE numToString(n \div 10) \o Digits[(n % 10) + 1]

(* `a || b` on strings *)
orElse(a, b) == IF a # "" THEN a ELSE b

RECURSIVE contentOf(_, _)
contentOf(properties, acc) ==
  IF properties = <<>> THEN acc
  ELSE contentOf(Tail(properties),
                 IF Head(properties).key # ""
                   THEN objSet(acc, Head(properties).key, Str(Head(properties).value))
                   ELSE acc)

(* variant: one unknown field is enough to skip *)
skipAdapter_Either(adapterType, adapterCategory) ==
  adapterType = "Unknown" \/ adapterCategory = "Unknown"

skipAdapter(adapterType, adapterCategory) ==
  adapterType = "Unknown" /\ adapterCategory = "Unknown"

(* processMessageFlow: <<>> stands for the null that extractAdapters filters out; *)
(* index is the 0-based position of the fragment                                *)
processMessageFlow(flow, index) ==
  IF flow.ext.shape = "none" THEN <<>>
  ELSE
    LET properties == flowProperties(flow)
        adapterName == orElse(getPropertyValue(properties, "Name"),
                         orElse(flow.id, "Adapter_" \o numToString(index)))
        adapterType == orElse(getPropertyValue(properties, "ComponentType"), "Unknown")
        adapterCategory == orElse(getPropertyValue(properties, "direction"), "Unknown")
        cmdVariantUri == orElse(getPropertyValue(properties, "cmdVariantUri"), "N/A")
        props1 == contentOf(properties, <<>>)
        props2 == IF flow.id # "" THEN objSet(props1, "id", Str(flow.id)) ELSE props1
        contentProps == objSet(props2, "name", Str(adapterName))
    IN  IF skipAdapter(adapterType, adapterCategory) THEN <<>>
        ELSE << [ adapter_name |-> adapterName,
                  adapter_type |-> adapterType,
                  adapter_category |-> adapterCategory,
                  direction |-> adapterCategory,
                  configuration |->
                    [ content |-> contentProps,
                      resourceMetadata |-> [ name |-> adapterName,
                                             cmdVariantUri |-> cmdVariantUri,
                                             componentType |-> adapterType ] ] ] >>

extractAdapters(px) ==
  IF px.kind = "null" \/ ~px.definitions THEN <<>>
  ELSE LET messageFlows == getMessageFlows(px) IN
    IF Len(messageFlows) = 0 THEN <<>>
    ELSE Concat([i \in 1..Len(messageFlows) |-> processMessageFlow(messageFlows[i], i - 1)])

-----------------------------------------------------------------------------
(* services/xmlExtraction/securityExtractor.js *)

isSecurityKey(key) ==
  LET k == toLowerCase(key) IN
    \/ includes(k, "auth")
    \/ includes(k, "certificate")
    \/ includes(k, "credential")
    \/ includes(k, "security")
    \/ includes(k, "ssl")
    \/ includes(k, "tls")
    \/ includes(k, "userRole")
    \/ includes(k, "clientCertificates")
    \/ includes(k, "xsrf")
    \/ includes(k, "maximumBodySize")

RECURSIVE collectInto(_, _)
collectInto(properties, acc) ==
  IF properties = <<>> THEN acc
  ELSE collectInto(Tail(properties),
                   IF Head(properties).key # "" /\ isSecurityKey(Head(properties).key)
                     THEN objSet(acc, Head(properties).key, Str(Head(properties).value))
                     ELSE acc)

collectSecurityConfiguration(properties) == collectInto(properties, <<>>)

normalizeAuthMethod(authMethod) ==
  IF includes(authMethod, "ClientCertificate") \/ includes(authMethod, "Client Certificate")
    THEN "Client Certificate"
  ELSE IF includes(authMethod, "Basic") THEN "Basic Authentication"
  ELSE IF includes(authMethod, "OAuth") THEN "OAuth"
  ELSE IF includes(authMethod, "SAML") THEN "SAML"
  ELSE IF includes(authMethod, "JWT") THEN "JWT"
  ELSE authMethod

(* variant: the adapter side is copied, Sender taken for the outgoing side *)
securityDirectionOf_NotInverted(direction) ==
  IF direction = "Sender" THEN "Outbound" ELSE "Inbound"

securityDirectionOf(direction) == IF direction = "Sender" THEN "Inbound" ELSE "Outbound"

(* variant: "None" is taken for an authentication method *)
hasAuthMethod_NonEmpty(authMethod) == authMethod # ""

hasAuthMethod(authMethod) == authMethod # "" /\ authMethod # "None"

(* variant: the record is named after the normalised type *)
processAuthenticationMechanism_TypeInName(authMethod, adapterName, direction, componentType, properties) ==
  IF hasAuthMethod(authMethod)
    THEN << [ mechanism_name |-> adapterName \o "_" \o normalizeAuthMethod(authMethod),
              mechanism_type |-> normalizeAuthMethod(authMethod),
              direction |-> securityDirectionOf(direction),
              configuration |-> objSet(collectSecurityConfiguration(properties),
                                       "componentType", Str(componentType)) ] >>
    ELSE <<>>

processAuthenticationMechanism(authMethod, adapterName, direction, componentType, properties) ==
  IF hasAuthMethod(authMethod)
    THEN << [ mechanism_name |-> adapterName \o "_" \o authMethod,
              mechanism_type |-> normalizeAuthMethod(authMethod),
              direction |-> securityDirectionOf(direction),
              configuration |-> objSet(collectSecurityConfiguration(properties),
                                       "componentType", Str(componentType)) ] >>
    ELSE <<>>

csrfMechanism(properties, adapterName, componentType) ==
  IF getPropertyValue(properties, "isCSRFEnabled") = "true"
    THEN << [ mechanism_name |-> adapterName \o "_CSRF",
              mechanism_type |-> "CSRF Protection",
              direction |-> "Outbound",
              configuration |-> << [key |-> "csrfEnabled", val |-> Bool(TRUE)],
                                   [key |-> "componentType", val |-> Str(componentType)] >> ] >>
    ELSE <<>>

clientCertMechanism(properties, adapterName, direction, componentType) ==
  LET privateKeyAlias == orElse(getPropertyValue(properties, "privateKeyAlias"),
                                getPropertyValue(properties, "odataCertAuthPrivateKeyAlias"))
  IN  IF privateKeyAlias # "" /\ direction = "Receiver"
        THEN << [ mechanism_name |-> adapterName \o "_ClientCert",
                  mechanism_type |-> "Client Certificate",
                  direction |-> "Outbound",
                  configuration |-> << [key |-> "privateKeyAlias", val |-> Str(privateKeyAlias)],
                                       [key |-> "certificateAuthentication", val |-> Bool(TRUE)],
                                       [key |-> "componentType", val |-> Str(componentType)] >> ] >>
        ELSE <<>>

xsrfMechanism(properties, adapterName, direction, componentType) ==
  IF getPropertyValue(properties, "xsrfProtection") = "0" /\ direction = "Sender"
    THEN << [ mechanism_name |-> adapterName \o "_XSRF_Disabled",
              mechanism_type |-> "XSRF Protection",
              direction |-> "Inbound",
              configuration |-> << [key |-> "xsrfProtection", val |-> Bool(FALSE)],
                                   [key |-> "componentType", val |-> Str(componentType)] >> ] >>
    ELSE <<>>

authorizationMechanism(properties, adapterName, direction, componentType) ==
  LET userRole == getPropertyValue(properties, "userRole") IN
    IF userRole # "" /\ direction = "Sender"
      THEN << [ mechanism_name |-> adapterName \o "_Authorization",
                mechanism_type |-> "Role-Based Authorization",
                direction |-> "Inbound",
                configuration |-> << [key |-> "userRole", val |-> Str(userRole)],
                                     [key |-> "componentType", val |-> Str(componentType)] >> ] >>
      ELSE <<>>

processAdditionalSecurity(properties, adapterName, direction, componentType) ==
  csrfMechanism(properties, adapterName, componentType)
    \o clientCertMechanism(properties, adapterName, direction, componentType)
    \o xsrfMechanism(properties, adapterName, direction, componentType)
    \o authorizationMechanism(properties, adapterName, direction, componentType)

(* the authentication method the message-flow pass reads for a fragment *)
authMethodOf(properties, direction) ==
  IF direction = "Sender" THEN getPropertyValue(properties, "senderAuthType")
  ELSE IF direction = "Receiver" THEN getPropertyValue(properties, "authenticationMethod")
  ELSE ""

(* body of the forEach of extractMessageFlowSecurity for one fragment *)
flowSecurity(flow, index) ==
  IF flow.ext.shape = "none" THEN <<>>
  ELSE
    LET properties == flowProperties(flow)
        direction == orElse(getPropertyValue(properties, "direction"), "Unknown")
        adapterName == orElse(getPropertyValue(properties, "Name"),
                         orElse(flow.id, "Adapter_" \o numToString(index)))
        componentType == orElse(getPropertyValue(properties, "ComponentType"), "Unknown")
        authMethod == authMethodOf(properties, direction)
    IN  processAuthenticationMechanism(authMethod, adapterName, direction, componentType, properties)
          \o processAdditionalSecurity(properties, adapterName, direction, componentType)

extractMessageFlowSecurity(px) ==
  LET messageFlows == getMessageFlows(px) IN
    Concat([i \in 1..Len(messageFlows) |-> flowSecurity(messageFlows[i], i - 1)])

(* variant: the value of corsEnabled is not looked at *)
corsMechanism_AnyValue(prop, flowId) ==
  IF prop.key = "corsEnabled"
    THEN << [ mechanism_name |-> flowId \o "_CORS",
              mechanism_type |-> "CORS",
              direction |-> "Inbound",
              configuration |-> << [key |-> "corsEnabled", val |-> Bool(TRUE)] >> ] >>
    ELSE <<>>

corsMechanism(prop, flowId) ==
  IF prop.key = "corsEnabled" /\ prop.value = "true"
    THEN << [ mechanism_name |-> flowId \o "_CORS",
              mechanism_type |-> "CORS",
              direction |-> "Inbound",
              configuration |-> << [key |-> "corsEnabled", val |-> Bool(TRUE)] >> ] >>
    ELSE <<>>

collaborationPropSecurity(prop, flowId) ==
  IF prop.key = "" THEN <<>>
  ELSE
    corsMechanism(prop, flowId)
    \o
    (IF prop.key = "returnExceptionToSender"
       THEN << [ mechanism_name |-> flowId \o "_ExceptionHandling",
                 mechanism_type |-> "Exception Handling",
                 direction |-> "Inbound",
                 configuration |->
                   << [key |-> "returnExceptionToSender", val |-> Bool(prop.value = "true")],
                      [key |-> "securityImplication",
                       val |-> Str(IF prop.value = "false" THEN "Prevents information disclosure"
                                   ELSE "May expose internal errors")] >> ] >>
       ELSE <<>>)
    \o
    (IF prop.key = "log"
       THEN << [ mechanism_name |-> flowId \o "_SecurityLogging",
                 mechanism_type |-> "Security Logging",
                 direction |-> "Inbound",
                 configuration |-> << [key |-> "logLevel", val |-> Str(prop.value)],
                                      [key |-> "auditTrail", val |-> Bool(TRUE)] >> ] >>
       ELSE <<>>)
    \o
    (IF prop.key = "ServerTrace"
       THEN << [ mechanism_name |-> flowId \o "_ServerTrace",
                 mechanism_type |-> "Debug Security",
                 direction |-> "Inbound",
                 configuration |->
                   << [key |-> "serverTrace", val |-> Bool(prop.value = "true")],
                      [key |-> "securityRisk",
                       val |-> Str(IF prop.value = "true" THEN "May expose sensitive data in traces"
                                   ELSE "Safe for production")] >> ] >>
       ELSE <<>>)

extractCollaborationSecurity(px, flowId) ==
  LET collaborationProps == getCollaborationProperties(px) IN
    Concat([i \in 1..Len(collaborationProps) |->
              collaborationPropSecurity(collaborationProps[i], flowId)])

extractSecurity(px, flowId) ==
  IF px.kind = "null" \/ ~px.definitions THEN <<>>
  ELSE extractMessageFlowSecurity(px) \o extractCollaborationSecurity(px, flowId)

-----------------------------------------------------------------------------
(* services/processing/baseProcessor.js *)

MaxNameLength == 255
MaxTypeLength == 100
MaxDirectionLength == 50

(* sanitizeString on a string argument ('' for a falsy one) *)
sanitizeString(value, maxLength) ==
  IF value = "" THEN ""
  ELSE LET sanitized == trim(value) IN
    IF Len(sanitized) > maxLength THEN substring(sanitized, 0, maxLength) ELSE sanitized

(* validateRequiredFields(data, ['<x>_name', '<x>_type'], ...) *)
validateRequiredFields(nameField, typeField) == nameField # "" /\ typeField # ""

-----------------------------------------------------------------------------
(* services/processing/securityProcessor.js *)

typeMapping ==
  << [key |-> "ClientCertificate",        val |-> "Client Certificate"],
     [key |-> "Client Certificate",       val |-> "Client Certificate"],
     [key |-> "BasicAuthentication",      val |-> "Basic Authentication"],
     [key |-> "Basic Authentication",     val |-> "Basic Authentication"],
     [key |-> "OAuth",                    val |-> "OAuth"],
     [key |-> "OAuth2",                   val |-> "OAuth"],
     [key |-> "SAML",                     val |-> "SAML"],
     [key |-> "JWT",                      val |-> "JWT"],
     [key |-> "None",                     val |-> "None"],
     [key |-> "CSRF Protection",          val |-> "CSRF Protection"],
     [key |-> "XSRF Protection",          val |-> "XSRF Protection"],
     [key |-> "CORS",                     val |-> "CORS"],
     [key |-> "Role-Based Authorization", val |-> "Role-Based Authorization"],
     [key |-> "Exception Handling",       val |-> "Exception Handling"],
     [key |-> "Security Logging",         val |-> "Security Logging"],
     [key |-> "Debug Security",           val |-> "Debug Security"] >>

normalizeSecurityType(mechanismType) ==
  IF mechanismType = "" THEN "Unknown"
  ELSE
    LET sanitized == sanitizeString(mechanismType, MaxTypeLength)
        lower == toLowerCase(sanitized)
        partial == {i \in 1..Len(typeMapping) :
                      \/ includes(lower, toLowerCase(typeMapping[i].key))
                      \/ includes(toLowerCase(typeMapping[i].key), lower)}
    IN  IF hasKey(typeMapping, sanitized) THEN objGet(typeMapping, sanitized)
        ELSE IF partial # {} THEN typeMapping[Min(partial)].val
        ELSE sanitized

(* truthiness of mechanism.configuration?.<k> *)
configTruthy(configuration, k) ==
  /\ hasKey(configuration, k)
  /\ objGet(configuration, k) \notin {Str(""), Bool(FALSE)}

(* variant: the direction field of the record is not consulted *)
determineSecurityDirection_TypeOnly(mechanism) ==
  IF \/ includes(toLowerCase(mechanism.mechanism_type), "receiver")
     \/ includes(toLowerCase(mechanism.mechanism_type), "csrf")
    THEN "Outbound" ELSE "Inbound"

determineSecurityDirection(mechanism) ==
  LET direction == sanitizeString(mechanism.direction, MaxDirectionLength)
      mechanismType == toLowerCase(mechanism.mechanism_type)
  IN
    IF mechanism.direction # "" /\ direction \in {"Inbound", "Outbound"} THEN direction
    ELSE IF \/ includes(mechanismType, "sender")
            \/ includes(mechanismType, "authorization")
            \/ includes(mechanismType, "cors")
            \/ includes(mechanismType, "exception handling")
            \/ includes(mechanismType, "logging")
      THEN "Inbound"
    ELSE IF \/ includes(mechanismType, "receiver")
            \/ includes(mechanismType, "csrf")
            \/ (includes(mechanismType, "client certificate")
                  /\ configTruthy(mechanism.configuration, "privateKeyAlias"))
      THEN "Outbound"
    ELSE IF includes(mechanismType, "client certificate")
            /\ configTruthy(mechanism.configuration, "senderAuthType")
      THEN "Inbound"
    ELSE IF includes(mechanismType, "client certificate")
            /\ (configTruthy(mechanism.configuration, "authenticationMethod")
                 \/ configTruthy(mechanism.configuration, "privateKeyAlias"))
      THEN "Outbound"
    ELSE "Inbound"

cleanConfigValue(v) ==
  IF DOMAIN v = {"s"}
    THEN (IF toLowerCase(v.s) = "true" THEN Bool(TRUE)
          ELSE IF toLowerCase(v.s) = "false" THEN Bool(FALSE)
          ELSE v)
    ELSE v

processSecurityConfiguration(configuration) ==
  [i \in 1..Len(configuration) |->
     [key |-> configuration[i].key, val |-> cleanConfigValue(configuration[i].val)]]

processIndividualSecurityMechanism(mechanism) ==
  [ mechanism_name |-> sanitizeString(mechanism.mechanism_name, MaxNameLength),
    mechanism_type |-> normalizeSecurityType(mechanism.mechanism_type),
    direction |-> determineSecurityDirection(mechanism),
    configuration |-> processSecurityConfiguration(mechanism.configuration) ]

(* the key of the `seen` map: `${mechanism.mechanism_name}_${mechanism.direction}` *)
seenKey(mechanism) == mechanism.mechanism_name \o "_" \o mechanism.direction

(* variant: a later record with a key already seen replaces the earlier one *)
deduplicateSecurityMechanisms_Last(mechs) ==
  LET lastOf(i) == \A j \in (i + 1)..Len(mechs) : seenKey(mechs[j]) # seenKey(mechs[i])
      keepIdx == {i \in 1..Len(mechs) : lastOf(i)}
      nth(k) == CHOOSE i \in keepIdx : Cardinality({j \in keepIdx : j < i}) = k - 1
  IN  [k \in 1..Cardinality(keepIdx) |-> mechs[nth(k)]]

deduplicateSecurityMechanisms(mechs) ==
  LET firstOf(i) == \A j \in 1..(i - 1) : seenKey(mechs[j]) # seenKey(mechs[i])
      keepIdx == {i \in 1..Len(mechs) : firstOf(i)}
      nth(k) == CHOOSE i \in keepIdx : Cardinality({j \in keepIdx : j < i}) = k - 1
  IN  [k \in 1..Cardinality(keepIdx) |-> mechs[nth(k)]]

(* processSecurityMechanisms on the array the sync pipeline hands it *)
processSecurityMechanisms(mechs) ==
  Concat([i \in 1..Len(mechs) |->
    IF validateRequiredFields(mechs[i].mechanism_name, mechs[i].mechanism_type)
      THEN <<processIndividualSecurityMechanism(mechs[i])>>
      ELSE <<>>])

-----------------------------------------------------------------------------
(* services/processing/adapterProcessor.js *)

determineDirection(adapter) ==
  LET adapterType == toLowerCase(adapter.adapter_type) IN
    IF adapter.direction # "" THEN sanitizeString(adapter.direction, MaxDirectionLength)
    ELSE IF adapter.adapter_category # ""
      THEN sanitizeString(adapter.adapter_category, MaxDirectionLength)
    ELSE IF includes(adapterType, "sender") \/ includes(adapterType, "inbound") THEN "Sender"
    ELSE IF includes(adapterType, "receiver") \/ includes(adapterType, "outbound") THEN "Receiver"
    ELSE "Unknown"

(* processAdapterConfiguration: content and resourceMetadata are copied *)
processAdapterConfiguration(configuration) == configuration

processIndividualAdapter(adapter) ==
  [ adapter_name |-> sanitizeString(adapter.adapter_name, MaxNameLength),
    adapter_type |-> sanitizeString(adapter.adapter_type, MaxTypeLength),
    adapter_category |-> sanitizeString(orElse(adapter.adapter_category, "Unknown"), MaxTypeLength),
    direction |-> determineDirection(adapter),
    configuration |-> processAdapterConfiguration(adapter.configuration) ]

processAdapters(adps) ==
  Concat([i \in 1..Len(adps) |->
    IF validateRequiredFields(adps[i].adapter_name, adps[i].adapter_type)
      THEN <<processIndividualAdapter(adps[i])>>
      ELSE <<>>])

-----------------------------------------------------------------------------
(* services/xmlExtraction/errorHandlingExtractor.js *)

NoTransactionInfo == [present |-> FALSE]

getDefaultErrorHandling ==
  [ detection_enabled |-> FALSE,
    logging_enabled |-> FALSE,
    classification_enabled |-> FALSE,
    reporting_enabled |-> FALSE,
    error_handling_details |-> [processDetails |-> <<>>] ]

(* extractCollaborationErrorHandling starts from `errorHandling = {}` and   *)
(* writes errorHandling.error_handling_details.<x> for each of these keys:  *)
(* error_handling_details is undefined there, so the write throws TypeError *)
collaborationErrorHandlingThrows(px) ==
  LET collaborationProps == getCollaborationProperties(px) IN
    \E i \in 1..Len(collaborationProps) :
      /\ collaborationProps[i].key # ""
      /\ collaborationProps[i].key \in {"returnExceptionToSender", "log", "ServerTrace"}

findErrorStartEvents(subProcess) ==
  Concat([i \in 1..Len(subProcess.startEvents) |->
    IF subProcess.startEvents[i].errorEventDefinition
      THEN << [ id |-> orElse(subProcess.startEvents[i].id, "UnknownErrorEvent"),
                name |-> orElse(subProcess.startEvents[i].name, "Error Start Event"),
                errorRef |-> orElse(subProcess.startEvents[i].errorRef, "UnknownError") ] >>
      ELSE <<>>])

(* variant: the escalation end event is looked for before the message end event *)
classifyErrorHandling_EscalationFirst(subProcess) ==
  IF subProcess.endEvents = <<>> THEN "Basic"
  ELSE IF \E i \in 1..Len(subProcess.endEvents) : subProcess.endEvents[i].escalationEventDefinition
    THEN "Escalation-based"
  ELSE IF \E i \in 1..Len(subProcess.endEvents) : subProcess.endEvents[i].messageEventDefinition
    THEN "Response-based"
  ELSE "Standard"

classifyErrorHandling(subProcess) ==
  IF subProcess.endEvents = <<>> THEN "Basic"
  ELSE IF \E i \in 1..Len(subProcess.endEvents) : subProcess.endEvents[i].messageEventDefinition
    THEN "Response-based"
  ELSE IF \E i \in 1..Len(subProcess.endEvents) : subProcess.endEvents[i].escalationEventDefinition
    THEN "Escalation-based"
  ELSE "Standard"

(* the forEach of findErrorSubprocesses; ['ifl:property']?.find(...) on a   *)
(* bare property object (shape "single") throws, which ends the loop in the *)
(* function's catch with the records pushed so far                          *)
RECURSIVE scanSubProcesses(_, _)
scanSubProcesses(subProcessArray, acc) ==
  IF subProcessArray = <<>> THEN acc
  ELSE LET subProcess == Head(subProcessArray) IN
    IF subProcess.ext.shape = "single" THEN acc
    ELSE
      LET activityType == IF subProcess.ext.shape = "none" THEN ""
                          ELSE getPropertyValue(subProcess.ext.props, "activityType")
          subProcessId == orElse(subProcess.id, "UnknownSubProcess")
      IN  scanSubProcesses(Tail(subProcessArray),
            IF activityType # "" /\ includes(activityType, "Error")
              THEN Append(acc, [ id |-> subProcessId,
                                 name |-> orElse(subProcess.name, subProcessId),
                                 type |-> activityType,
                                 errorStartEvents |-> findErrorStartEvents(subProcess),
                                 classification |-> classifyErrorHandling(subProcess) ])
              ELSE acc)

findErrorSubprocesses(process) == scanSubProcesses(process.subProcesses, <<>>)

isErrorKey(key) ==
  LET k == toLowerCase(key) IN
    includes(k, "error") \/ includes(k, "exception") \/ includes(k, "retry")

(* propsArray of a task or process: a bare object is wrapped into a list *)
propsArrayOf(node) == node.ext.props

(* prop.key?._.toLowerCase() throws on a key element without text *)
keyThrows(propsArray) == \E i \in 1..Len(propsArray) : propsArray[i].key = ""

errorHandlingProps(propsArray) ==
  Concat([i \in 1..Len(propsArray) |->
    IF isErrorKey(propsArray[i].key)
      THEN <<[key |-> propsArray[i].key, value |-> propsArray[i].value]>>
      ELSE <<>>])

RECURSIVE scanServiceTasks(_, _)
scanServiceTasks(serviceTaskArray, acc) ==
  IF serviceTaskArray = <<>> THEN acc
  ELSE LET task == Head(serviceTaskArray)
           propsArray == propsArrayOf(task)
           matching == errorHandlingProps(propsArray)
       IN
    (* some() stops at the first match; a textless key before it throws *)
    IF \E i \in 1..Len(propsArray) :
         /\ propsArray[i].key = ""
         /\ \A j \in 1..(i - 1) : ~isErrorKey(propsArray[j].key)
      THEN acc
    ELSE IF matching # <<>> /\ keyThrows(propsArray) THEN acc
    ELSE scanServiceTasks(Tail(serviceTaskArray),
           IF matching # <<>>
             THEN Append(acc, [ id |-> orElse(task.id, "UnknownTask"),
                                name |-> orElse(task.name, "Service Task"),
                                type |-> "ServiceTask",
                                errorHandlingProps |-> matching ])
             ELSE acc)

findTryCatchPatterns(process) == scanServiceTasks(process.serviceTasks, <<>>)

extractTransactionInfo(process) ==
  LET propsArray == propsArrayOf(process)
      transactionTimeout == getPropertyValue(propsArray, "transactionTimeout")
      transactionalHandling == getPropertyValue(propsArray, "transactionalHandling")
  IN  IF transactionTimeout # "" \/ transactionalHandling # ""
        THEN [ present |-> TRUE,
               transactionTimeout |-> orElse(transactionTimeout, "Not specified"),
               transactionalHandling |-> orElse(transactionalHandling, "Not specified"),
               supportsRollback |-> (transactionalHandling = "Required") ]
        ELSE NoTransactionInfo

(* one iteration of the forEach of extractProcessErrorHandling *)
processErrorDetails(processDetails, process, index) ==
  LET processId == orElse(process.id, "Process_" \o numToString(index))
      processName == orElse(process.name, processId)
      errorSubprocesses == findErrorSubprocesses(process)
      tryCatchPatterns == findTryCatchPatterns(process)
      transactionInfo == extractTransactionInfo(process)
      fresh(has) == [ processName |-> processName,
                      hasErrorHandling |-> has,
                      errorSubprocesses |-> <<>>,
                      tryCatchPatterns |-> <<>>,
                      transactionHandling |-> NoTransactionInfo ]
      d1 == IF errorSubprocesses # <<>>
              THEN objSet(processDetails, processId,
                          [fresh(TRUE) EXCEPT !.errorSubprocesses = errorSubprocesses])
              ELSE processDetails
      d2 == IF tryCatchPatterns # <<>>
              THEN objSet(d1, processId,
                          [(IF hasKey(d1, processId) THEN objGet(d1, processId) ELSE fresh(TRUE))
                             EXCEPT !.tryCatchPatterns = tryCatchPatterns])
              ELSE d1
      d3 == IF transactionInfo.present
              THEN objSet(d2, processId,
                          [(IF hasKey(d2, processId) THEN objGet(d2, processId) ELSE fresh(FALSE))
                             EXCEPT !.transactionHandling = transactionInfo])
              ELSE d2
  IN  d3

RECURSIVE scanProcesses(_, _, _)
scanProcesses(processArray, index, processDetails) ==
  IF processArray = <<>> THEN processDetails
  ELSE scanProcesses(Tail(processArray), index + 1,
                     processErrorDetails(processDetails, Head(processArray), index))

extractProcessErrorHandling(px) == scanProcesses(px.processes, 0, <<>>)

mergeErrorHandlingDetails(eh, processDetails) ==
  IF Len(processDetails) > 0
    THEN
      LET hasErrorSubprocesses ==
            \E i \in 1..Len(processDetails) : processDetails[i].val.errorSubprocesses # <<>>
          hasTryCatch ==
            \E i \in 1..Len(processDetails) : processDetails[i].val.tryCatchPatterns # <<>>
      IN  [ eh EXCEPT
              !.detection_enabled = IF hasErrorSubprocesses THEN TRUE ELSE @,
              !.classification_enabled = IF hasErrorSubprocesses THEN TRUE ELSE @,
              !.logging_enabled = IF hasTryCatch THEN TRUE ELSE @,
              !.error_handling_details = [processDetails |-> processDetails] ]
    ELSE eh

extractErrorHandling(px) ==
  IF px.kind = "null" \/ ~px.definitions THEN getDefaultErrorHandling
  ELSE IF collaborationErrorHandlingThrows(px) THEN getDefaultErrorHandling
  ELSE mergeErrorHandlingDetails(getDefaultErrorHandling, extractProcessErrorHandling(px))

-----------------------------------------------------------------------------
(* services/xmlExtraction/persistenceExtractor.js *)

Undefined == [u |-> TRUE]

(* variant: one default object shared by all invocations, so that what an  *)
(* earlier invocation merged into it is still there                        *)
getDefaultPersistence_Shared ==
  IF persistence = Undefined
    THEN [ jms_enabled |-> FALSE, data_store_enabled |-> FALSE, variables_enabled |-> FALSE,
           message_persistence_enabled |-> FALSE,
           persistence_details |->
             [ jmsAdapters |-> <<>>, messagePersistence |-> <<>>, dataStoreOperations |-> <<>>,
               dataStoreActivities |-> <<>>, variableOperations |-> <<>>, externalCalls |-> <<>>,
               transactionalHandling |-> "None", processType |-> "undefined",
               directCall |-> FALSE ],
           transactionalHandling |-> Undefined, processType |-> Undefined,
           directCall |-> Undefined ]
    ELSE persistence

getDefaultPersistence ==
  [ jms_enabled |-> FALSE,
    data_store_enabled |-> FALSE,
    variables_enabled |-> FALSE,
    message_persistence_enabled |-> FALSE,
    persistence_details |->
      [ jmsAdapters |-> <<>>,
        messagePersistence |-> <<>>,
        dataStoreOperations |-> <<>>,
        dataStoreActivities |-> <<>>,
        variableOperations |-> <<>>,
        externalCalls |-> <<>>,
        transactionalHandling |-> "None",
        processType |-> "undefined",
        directCall |-> FALSE ],
    (* own properties that Object.assign may add to the top-level object *)
    transactionalHandling |-> Undefined,
    processType |-> Undefined,
    directCall |-> Undefined ]

(* the object extractCollaborationPersistence builds, one property at a time *)
collaborationPersistenceStep(acc, prop) ==
  IF prop.key = "" THEN acc
  ELSE
    LET a1 == IF prop.key = "transactionalHandling"
                THEN (IF prop.value # "" /\ prop.value # "None"
                        THEN objSet(objSet(acc, "transactionalHandling", Str(prop.value)),
                                    "message_persistence_enabled", Bool(TRUE))
                        ELSE objSet(acc, "transactionalHandling", Str(prop.value)))
                ELSE acc
        a2 == IF prop.key = "processType"
                THEN objSet(objSet(a1, "processType", Str(prop.value)),
                            "directCall", Bool(prop.value = "ProcessDirect"))
                ELSE a1
        a3 == IF prop.key = "messagePersistenceEnabled" \/ prop.key = "persist"
                THEN objSet(a2, "message_persistence_enabled", Bool(prop.value = "true"))
                ELSE a2
    IN  a3

RECURSIVE foldCollaborationPersistence(_, _)
foldCollaborationPersistence(props, acc) ==
  IF props = <<>> THEN acc
  ELSE foldCollaborationPersistence(Tail(props), collaborationPersistenceStep(acc, Head(props)))

extractCollaborationPersistence(px) ==
  foldCollaborationPersistence(getCollaborationProperties(px), <<>>)

(* Object.assign(persistence, collaborationPersistence) *)
assignCollaboration(p, c) ==
  [ p EXCEPT
      !.message_persistence_enabled =
         IF hasKey(c, "message_persistence_enabled")
           THEN objGet(c, "message_persistence_enabled").b ELSE @,
      !.transactionalHandling =
         IF hasKey(c, "transactionalHandling") THEN objGet(c, "transactionalHandling") ELSE @,
      !.processType = IF hasKey(c, "processType") THEN objGet(c, "processType") ELSE @,
      !.directCall = IF hasKey(c, "directCall") THEN objGet(c, "directCall") ELSE @ ]

(* propsArray.some(prop => test(prop.key?._.toLowerCase()...)) : a key      *)
(* element without text throws unless a matching property comes before it   *)
someKeyThrows(propsArray, test(_)) ==
  \E i \in 1..Len(propsArray) :
    /\ propsArray[i].key = ""
    /\ \A j \in 1..(i - 1) : ~test(propsArray[j].key)

someKey(propsArray, test(_)) == \E i \in 1..Len(propsArray) : test(propsArray[i].key)

isDataStoreKey(key) ==
  LET k == toLowerCase(key) IN
    includes(k, "datastore") \/ includes(k, "data_store") \/ includes(k, "store")

isVariableKey(key) ==
  LET k == toLowerCase(key) IN
    includes(k, "variable") \/ includes(k, "header") \/ includes(k, "property")

isOperationKey(key) ==
  LET k == toLowerCase(key) IN includes(k, "operation") \/ includes(k, "action")

mapProps(propsArray) ==
  [i \in 1..Len(propsArray) |-> [key |-> propsArray[i].key, value |-> propsArray[i].value]]

(* Scan results carry `threw` so that the second loop of the same try block *)
(* is skipped after a throw in the first.                                   *)
RECURSIVE scanDataStoreScripts(_, _)
scanDataStoreScripts(tasks, acc) ==
  IF tasks = <<>> THEN [threw |-> FALSE, out |-> acc]
  ELSE LET task == Head(tasks)
           propsArray == propsArrayOf(task)
       IN
    IF someKeyThrows(propsArray, isDataStoreKey) THEN [threw |-> TRUE, out |-> acc]
    ELSE scanDataStoreScripts(Tail(tasks),
           IF someKey(propsArray, isDataStoreKey)
             THEN Append(acc, [ id |-> orElse(task.id, "UnknownTask"),
                                name |-> orElse(task.name, "Data Store Activity"),
                                type |-> "ScriptTask",
                                activityType |-> "",
                                properties |-> mapProps(propsArray) ])
             ELSE acc)

dataStoreServiceTasks(tasks) ==
  Concat([i \in 1..Len(tasks) |->
    LET propsArray == propsArrayOf(tasks[i])
        activityType == getPropertyValue(propsArray, "activityType")
    IN  IF activityType # "" /\ (includes(activityType, "DataStore") \/ includes(activityType, "Store"))
          THEN << [ id |-> orElse(tasks[i].id, "UnknownTask"),
                    name |-> orElse(tasks[i].name, "Data Store Operation"),
                    type |-> "ServiceTask",
                    activityType |-> activityType,
                    properties |-> mapProps(propsArray) ] >>
          ELSE <<>>])

findDataStoreActivities(process) ==
  LET scripts == scanDataStoreScripts(process.scriptTasks, <<>>) IN
    IF scripts.threw THEN scripts.out
    ELSE scripts.out \o dataStoreServiceTasks(process.serviceTasks)

determineVariableOperation(properties, script) ==
  LET hits == {i \in 1..Len(properties) : isOperationKey(properties[i].key)} IN
    IF hits # {} /\ properties[Min(hits)].value # "" THEN properties[Min(hits)].value
    ELSE IF includes(script, "setProperty") \/ includes(script, "setHeader") THEN "Set Variable"
    ELSE IF includes(script, "getProperty") \/ includes(script, "getHeader") THEN "Get Variable"
    ELSE IF includes(script, "removeProperty") \/ includes(script, "removeHeader")
      THEN "Remove Variable"
    ELSE "Variable Operation"

hasVariableInScript(script) ==
  \/ includes(script, "setProperty")
  \/ includes(script, "getProperty")
  \/ includes(script, "setHeader")
  \/ includes(script, "getHeader")

RECURSIVE scanVariableScripts(_, _)
scanVariableScripts(tasks, acc) ==
  IF tasks = <<>> THEN [threw |-> FALSE, out |-> acc]
  ELSE LET task == Head(tasks)
           propsArray == propsArrayOf(task)
           found == someKey(propsArray, isVariableKey) \/ hasVariableInScript(task.script)
       IN
    IF someKeyThrows(propsArray, isVariableKey) THEN [threw |-> TRUE, out |-> acc]
    ELSE IF found /\ someKeyThrows(propsArray, isOperationKey) THEN [threw |-> TRUE, out |-> acc]
    ELSE scanVariableScripts(Tail(tasks),
           IF found
             THEN Append(acc, [ id |-> orElse(task.id, "UnknownTask"),
                                name |-> orElse(task.name, "Variable Operation"),
                                type |-> "ScriptTask",
                                operation |-> determineVariableOperation(propsArray, task.script) ])
             ELSE acc)

variableServiceTasks(tasks) ==
  Concat([i \in 1..Len(tasks) |->
    LET activityType == getPropertyValue(propsArrayOf(tasks[i]), "activityType") IN
      IF activityType # ""
           /\ (includes(activityType, "ContentModifier") \/ includes(activityType, "Variable"))
        THEN << [ id |-> orElse(tasks[i].id, "UnknownTask"),
                  name |-> orElse(tasks[i].name, "Content Modifier"),
                  type |-> "ServiceTask",
                  operation |-> activityType ] >>
        ELSE <<>>])

findVariableOperations(process) ==
  LET scripts == scanVariableScripts(process.scriptTasks, <<>>) IN
    IF scripts.threw THEN scripts.out
    ELSE scripts.out \o variableServiceTasks(process.serviceTasks)

findExternalCalls(process) ==
  Concat([i \in 1..Len(process.callActivities) |->
    IF process.callActivities[i].calledElement # ""
      THEN << [ id |-> orElse(process.callActivities[i].id, "UnknownCall"),
                name |-> orElse(process.callActivities[i].name,
                                process.callActivities[i].calledElement),
                calledElement |-> process.callActivities[i].calledElement,
                activityType |-> "" ] >>
      ELSE <<>>])
  \o
  Concat([i \in 1..Len(process.serviceTasks) |->
    LET activityType == getPropertyValue(propsArrayOf(process.serviceTasks[i]), "activityType") IN
      IF activityType # ""
           /\ (includes(activityType, "External") \/ includes(activityType, "Request Reply"))
        THEN << [ id |-> orElse(process.serviceTasks[i].id, "UnknownTask"),
                  name |-> orElse(process.serviceTasks[i].name, "External Call"),
                  calledElement |-> "",
                  activityType |-> activityType ] >>
        ELSE <<>>])

extractProcessPersistence(px) ==
  [ dataStoreActivities |->
      Concat([i \in 1..Len(px.processes) |-> findDataStoreActivities(px.processes[i])]),
    variableOperations |->
      Concat([i \in 1..Len(px.processes) |-> findVariableOperations(px.processes[i])]),
    externalCalls |->
      Concat([i \in 1..Len(px.processes) |-> findExternalCalls(px.processes[i])]),
    jmsAdapters |-> <<>>,
    messagePersistence |-> <<>>,
    dataStoreOperations |-> <<>> ]

isJmsKey(key) ==
  LET k == toLowerCase(key) IN includes(k, "jms") \/ includes(k, "queue") \/ includes(k, "topic")

isPersistKey(key) ==
  LET k == toLowerCase(key) IN
    includes(k, "persist") \/ includes(k, "durable") \/ includes(k, "reliable")

RECURSIVE collectKeys(_, _, _)
collectKeys(properties, test(_), acc) ==
  IF properties = <<>> THEN acc
  ELSE collectKeys(Tail(properties), test,
                   IF Head(properties).key # "" /\ test(Head(properties).key)
                     THEN objSet(acc, Head(properties).key, Str(Head(properties).value))
                     ELSE acc)


(* extractJMSConfiguration: <<>> stands for null *)
extractJMSConfiguration(properties, adapterName) ==
  LET jmsProperties == collectKeys(properties, isJmsKey, <<>>) IN
    IF Len(jmsProperties) > 0
      THEN << [name |-> adapterName, type |-> "JMS", properties |-> jmsProperties] >>
      ELSE <<>>

(* variant: queue and topic component types count as JMS too *)
isJmsComponent_QueueTopic(componentType) ==
  LET ct == toLowerCase(componentType) IN
    includes(ct, "jms") \/ includes(ct, "queue") \/ includes(ct, "topic")

isJmsComponent(componentType) == includes(toLowerCase(componentType), "jms")

(* variant: the component type is not looked at *)
extractMessagePersistenceConfiguration_PropertiesOnly(properties, adapterName, componentType) ==
  LET persistenceConfig == collectKeys(properties, isPersistKey, <<>>) IN
    IF Len(persistenceConfig) > 0
      THEN << [ adapterName |-> adapterName,
                componentType |-> componentType,
                enabled |-> TRUE,
                configuration |-> persistenceConfig ] >>
      ELSE <<>>

extractMessagePersistenceConfiguration(properties, adapterName, componentType) ==
  LET persistenceConfig == collectKeys(properties, isPersistKey, <<>>)
      ct == toLowerCase(componentType)
      hasPersistence ==
        \/ Len(persistenceConfig) > 0
        \/ includes(ct, "jms") \/ includes(ct, "queue") \/ includes(ct, "reliable")
  IN  IF hasPersistence
        THEN << [ adapterName |-> adapterName,
                  componentType |-> componentType,
                  enabled |-> TRUE,
                  configuration |-> persistenceConfig ] >>
        ELSE <<>>

RECURSIVE dataStoreOperationOf(_, _)
dataStoreOperationOf(properties, operation) ==
  IF properties = <<>> THEN operation
  ELSE LET k == toLowerCase(Head(properties).key) IN
    dataStoreOperationOf(Tail(properties),
      IF Head(properties).key # "" /\ isDataStoreKey(Head(properties).key)
        THEN (IF includes(k, "get") \/ includes(k, "select") THEN "Get"
              ELSE IF includes(k, "put") \/ includes(k, "write") THEN "Put"
              ELSE IF includes(k, "delete") THEN "Delete"
              ELSE operation)
        ELSE operation)

extractDataStoreConfiguration(properties, adapterName, componentType) ==
  LET dataStoreConfig == collectKeys(properties, isDataStoreKey, <<>>)
      ct == toLowerCase(componentType)
      hasDataStore ==
        Len(dataStoreConfig) > 0 \/ includes(ct, "datastore") \/ includes(ct, "store")
  IN  IF hasDataStore
        THEN << [ adapterName |-> adapterName,
                  componentType |-> componentType,
                  operation |-> dataStoreOperationOf(properties, "Unknown"),
                  enabled |-> TRUE,
                  configuration |-> dataStoreConfig ] >>
        ELSE <<>>

(* what one fragment adds in the forEach of extractAdapterPersistence *)
flowPersistence(flow, index) ==
  IF flow.ext.shape = "none"
    THEN [jmsAdapters |-> <<>>, messagePersistence |-> <<>>, dataStoreOperations |-> <<>>]
  ELSE
    LET properties == flowProperties(flow)
        componentType == orElse(getPropertyValue(properties, "ComponentType"), "Unknown")
        adapterName == orElse(getPropertyValue(properties, "Name"),
                         orElse(flow.id, "Adapter_" \o numToString(index)))
    IN  [ jmsAdapters |-> IF isJmsComponent(componentType)
                            THEN extractJMSConfiguration(properties, adapterName) ELSE <<>>,
          messagePersistence |->
            extractMessagePersistenceConfiguration(properties, adapterName, componentType),
          dataStoreOperations |->
            extractDataStoreConfiguration(properties, adapterName, componentType) ]

extractAdapterPersistence(px) ==
  LET messageFlows == getMessageFlows(px)
      per == [i \in 1..Len(messageFlows) |-> flowPersistence(messageFlows[i], i - 1)]
  IN  [ jmsAdapters |-> Concat([i \in 1..Len(per) |-> per[i].jmsAdapters]),
        messagePersistence |-> Concat([i \in 1..Len(per) |-> per[i].messagePersistence]),
        dataStoreOperations |-> Concat([i \in 1..Len(per) |-> per[i].dataStoreOperations]),
        dataStoreActivities |-> <<>>,
        variableOperations |-> <<>>,
        externalCalls |-> <<>> ]

(* variant: the lists are appended and the flags are left as they were *)
mergePersistenceDetails_DetailsOnly(p, details) ==
  [ p EXCEPT
      !.persistence_details =
         [ @ EXCEPT
             !.jmsAdapters = @ \o details.jmsAdapters,
             !.messagePersistence = @ \o details.messagePersistence,
             !.dataStoreOperations = @ \o details.dataStoreOperations,
             !.dataStoreActivities = @ \o details.dataStoreActivities,
             !.variableOperations = @ \o details.variableOperations,
             !.externalCalls = @ \o details.externalCalls ] ]

(* variant: each merge replaces what the earlier sources left *)
mergePersistenceDetails_Overwrite(p, details) ==
  [ p EXCEPT
      !.jms_enabled = Len(details.jmsAdapters) > 0,
      !.message_persistence_enabled = Len(details.messagePersistence) > 0,
      !.data_store_enabled =
         Len(details.dataStoreOperations) > 0 \/ Len(details.dataStoreActivities) > 0,
      !.variables_enabled = Len(details.variableOperations) > 0,
      !.persistence_details =
         [ @ EXCEPT
             !.jmsAdapters = details.jmsAdapters,
             !.messagePersistence = details.messagePersistence,
             !.dataStoreOperations = details.dataStoreOperations,
             !.dataStoreActivities = details.dataStoreActivities,
             !.variableOperations = details.variableOperations,
             !.externalCalls = details.externalCalls ] ]

(* mergePersistenceDetails for the detail objects the two scans return;     *)
(* neither carries transactionalHandling, processType or directCall         *)
mergePersistenceDetails(p, details) ==
  [ p EXCEPT
      !.jms_enabled = IF Len(details.jmsAdapters) > 0 THEN TRUE ELSE @,
      !.message_persistence_enabled = IF Len(details.messagePersistence) > 0 THEN TRUE ELSE @,
      !.data_store_enabled =
         IF Len(details.dataStoreOperations) > 0 \/ Len(details.dataStoreActivities) > 0
           THEN TRUE ELSE @,
      !.variables_enabled = IF Len(details.variableOperations) > 0 THEN TRUE ELSE @,
      !.persistence_details =
         [ @ EXCEPT
             !.jmsAdapters = @ \o details.jmsAdapters,
             !.messagePersistence = @ \o details.messagePersistence,
             !.dataStoreOperations = @ \o details.dataStoreOperations,
             !.dataStoreActivities = @ \o details.dataStoreActivities,
             !.variableOperations = @ \o details.variableOperations,
             !.externalCalls = @ \o details.externalCalls ] ]

extractPersistence(px) ==
  IF px.kind = "null" \/ ~px.definitions THEN getDefaultPersistence
  ELSE
    LET p0 == assignCollaboration(getDefaultPersistence, extractCollaborationPersistence(px))
        p1 == mergePersistenceDetails(p0, extractProcessPersistence(px))
        p2 == mergePersistenceDetails(p1, extractAdapterPersistence(px))
    IN  p2

-----------------------------------------------------------------------------
(* services/processing/errorHandlingProcessor.js *)

MaxIdLength == 100
MaxValueLength == 500

(* JavaScript values of a flag: Bool(b), Str(s), Undefined and Null *)
Null == [n |-> TRUE]

(* Boolean(value) *)
toBoolean(value) ==
  IF DOMAIN value = {"b"} THEN value.b
  ELSE IF DOMAIN value = {"s"} THEN value.s # ""
  ELSE FALSE

ensureBoolean(value) ==
  IF DOMAIN value \in {{"n"}, {"u"}} THEN Null ELSE Bool(toBoolean(value))

(* an extractor aggregate as the processors see it: its flags are booleans *)
EnabledFlags(aggregate) == {f \in DOMAIN aggregate : endsWith(f, "_enabled")}
withBooleanFlags(aggregate) ==
  [f \in DOMAIN aggregate |->
     IF f \in EnabledFlags(aggregate) THEN Bool(aggregate[f]) ELSE aggregate[f]]

processProcessDetails(processDetails) ==
  [i \in 1..Len(processDetails) |->
    LET process == processDetails[i].val IN
      [ key |-> processDetails[i].key,
        val |->
          [ processName |-> sanitizeString(process.processName, MaxNameLength),
            hasErrorHandling |-> process.hasErrorHandling,
            errorSubprocesses |->
              [j \in 1..Len(process.errorSubprocesses) |->
                 [ id |-> sanitizeString(process.errorSubprocesses[j].id, MaxIdLength),
                   name |-> sanitizeString(process.errorSubprocesses[j].name, MaxNameLength),
                   type |-> sanitizeString(process.errorSubprocesses[j].type, MaxTypeLength),
                   classification |->
                     sanitizeString(process.errorSubprocesses[j].classification, MaxTypeLength),
                   errorStartEvents |-> process.errorSubprocesses[j].errorStartEvents ]],
            tryCatchPatterns |->
              [j \in 1..Len(process.tryCatchPatterns) |->
                 [ id |-> sanitizeString(process.tryCatchPatterns[j].id, MaxIdLength),
                   name |-> sanitizeString(process.tryCatchPatterns[j].name, MaxNameLength),
                   type |-> sanitizeString(process.tryCatchPatterns[j].type, MaxTypeLength),
                   errorHandlingProps |-> process.tryCatchPatterns[j].errorHandlingProps ]],
            transactionHandling |-> process.transactionHandling ] ]]

processErrorHandlingDetails(details) ==
  [processDetails |-> processProcessDetails(details.processDetails)]

processErrorHandling(eh) ==
  [ detection_enabled |-> ensureBoolean(eh.detection_enabled),
    logging_enabled |-> ensureBoolean(eh.logging_enabled),
    classification_enabled |-> ensureBoolean(eh.classification_enabled),
    reporting_enabled |-> ensureBoolean(eh.reporting_enabled),
    error_handling_details |-> processErrorHandlingDetails(eh.error_handling_details) ]

-----------------------------------------------------------------------------
(* services/processing/persistenceProcessor.js *)

processPersistenceDetails(details) ==
  [ jmsAdapters |->
      [i \in 1..Len(details.jmsAdapters) |->
         [ name |-> sanitizeString(details.jmsAdapters[i].name, MaxNameLength),
           type |-> sanitizeString(details.jmsAdapters[i].type, MaxTypeLength),
           properties |-> details.jmsAdapters[i].properties ]],
    messagePersistence |->
      [i \in 1..Len(details.messagePersistence) |->
         [ adapterName |-> sanitizeString(details.messagePersistence[i].adapterName, MaxNameLength),
           componentType |->
             sanitizeString(details.messagePersistence[i].componentType, MaxTypeLength),
           enabled |-> details.messagePersistence[i].enabled,
           configuration |-> details.messagePersistence[i].configuration ]],
    dataStoreOperations |->
      [i \in 1..Len(details.dataStoreOperations) |->
         [ adapterName |-> sanitizeString(details.dataStoreOperations[i].adapterName, MaxNameLength),
           componentType |->
             sanitizeString(details.dataStoreOperations[i].componentType, MaxTypeLength),
           operation |-> sanitizeString(details.dataStoreOperations[i].operation, MaxTypeLength),
           enabled |-> details.dataStoreOperations[i].enabled,
           configuration |-> details.dataStoreOperations[i].configuration ]],
    dataStoreActivities |->
      [i \in 1..Len(details.dataStoreActivities) |->
         [ id |-> sanitizeString(details.dataStoreActivities[i].id, MaxIdLength),
           name |-> sanitizeString(details.dataStoreActivities[i].name, MaxNameLength),
           type |-> sanitizeString(details.dataStoreActivities[i].type, MaxTypeLength),
           properties |->
             [j \in 1..Len(details.dataStoreActivities[i].properties) |->
                [ key |-> sanitizeString(details.dataStoreActivities[i].properties[j].key,
                                         MaxIdLength),
                  value |-> sanitizeString(details.dataStoreActivities[i].properties[j].value,
                                           MaxValueLength) ]] ]],
    variableOperations |->
      [i \in 1..Len(details.variableOperations) |->
         [ id |-> sanitizeString(details.variableOperations[i].id, MaxIdLength),
           name |-> sanitizeString(details.variableOperations[i].name, MaxNameLength),
           type |-> sanitizeString(details.variableOperations[i].type, MaxTypeLength),
           operation |-> sanitizeString(details.variableOperations[i].operation, MaxNameLength) ]],
    externalCalls |->
      [i \in 1..Len(details.externalCalls) |->
         [ id |-> sanitizeString(details.externalCalls[i].id, MaxIdLength),
           name |-> sanitizeString(details.externalCalls[i].name, MaxNameLength) ]],
    transactionalHandling |-> sanitizeString(details.transactionalHandling, MaxTypeLength),
    processType |-> sanitizeString(details.processType, MaxTypeLength),
    directCall |-> details.directCall ]

processPersistence(p) ==
  [ jms_enabled |-> ensureBoolean(p.jms_enabled),
    data_store_enabled |-> ensureBoolean(p.data_store_enabled),
    variables_enabled |-> ensureBoolean(p.variables_enabled),
    message_persistence_enabled |-> ensureBoolean(p.message_persistence_enabled),
    persistence_details |-> processPersistenceDetails(p.persistence_details) ]

-----------------------------------------------------------------------------
(* services/authService.js. Times are in minutes; 0 stands for null in the  *)
(* time and token fields, which the code only tests for truthiness.         *)

MAX_FAILURES == 3
CIRCUIT_BREAKER_TIMEOUT == 5

closedCircuitBreaker ==
  [failureCount |-> 0, lastFailureTime |-> 0, isOpen |-> FALSE, openUntil |-> 0]

emptyTokenCache == [accessToken |-> 0, expiresAt |-> 0]

(* the value isCircuitBreakerOpen returns at time t *)
isCircuitBreakerOpen(breaker, t) ==
  breaker.isOpen /\ breaker.openUntil # 0 /\ t < breaker.openUntil

(* the breaker isCircuitBreakerOpen leaves behind when it returns false *)
resetIfExpired(breaker, t) ==
  IF breaker.isOpen /\ breaker.openUntil # 0 /\ t >= breaker.openUntil
    THEN closedCircuitBreaker ELSE breaker

recordFailure(breaker, t) ==
  LET failureCount == breaker.failureCount + 1 IN
    [ failureCount |-> failureCount,
      lastFailureTime |-> t,
      isOpen |-> IF failureCount >= MAX_FAILURES THEN TRUE ELSE breaker.isOpen,
      openUntil |-> IF failureCount >= MAX_FAILURES
                      THEN t + CIRCUIT_BREAKER_TIMEOUT ELSE breaker.openUntil ]

recordSuccess(breaker) == closedCircuitBreaker

(* variant: the cached token is kept *)
clearTokenCache_Keep(cache) == cache

clearTokenCache(cache) == emptyTokenCache

(* answers of the token endpoint: a token with its expires_in, or a failure *)
ExpiresIn == {6, 8}
TokenResponses ==
  {[ok |-> TRUE, expires_in |-> e] : e \in ExpiresIn} \cup {[ok |-> FALSE, expires_in |-> 0]}

(* getOAuthToken called at time t, the token endpoint answering `response`  *)
(* if it is asked: what the call yields and the module state it leaves.     *)
(* Every throw inside the try block reaches the catch and recordFailure.    *)
getOAuthToken(breaker, cache, t, issued, response) ==
  IF ~configured
    THEN [ outcome |-> "failed", token |-> 0, requested |-> FALSE,
           circuitBreaker |-> recordFailure(breaker, t), tokenCache |-> cache ]
  ELSE IF isCircuitBreakerOpen(breaker, t)
    THEN [ outcome |-> "rejected", token |-> 0, requested |-> FALSE,
           circuitBreaker |-> recordFailure(breaker, t), tokenCache |-> cache ]
  ELSE IF cache.accessToken # 0 /\ cache.expiresAt # 0 /\ t < cache.expiresAt
    THEN [ outcome |-> "cached", token |-> cache.accessToken, requested |-> FALSE,
           circuitBreaker |-> resetIfExpired(breaker, t), tokenCache |-> cache ]
  ELSE IF response.ok
    THEN [ outcome |-> "token", token |-> issued + 1, requested |-> TRUE,
           circuitBreaker |-> recordSuccess(resetIfExpired(breaker, t)),
           tokenCache |-> [ accessToken |-> issued + 1,
                            expiresAt |-> t + response.expires_in - 5 ] ]
  ELSE [ outcome |-> "failed", token |-> 0, requested |-> TRUE,
         circuitBreaker |-> recordFailure(resetIfExpired(breaker, t), t),
         tokenCache |-> cache ]

NoCall ==
  [ at |-> 0, outcome |-> "none", requested |-> FALSE,
    before |-> closedCircuitBreaker, after |-> closedCircuitBreaker ]

IdleFetch == [stage |-> "idle", token |-> 0, requests |-> <<>>]

(* the module state of authService.js when it is loaded *)
InitAuthService ==
  /\ now = 1
  /\ circuitBreaker = closedCircuitBreaker
  /\ tokenCache = emptyTokenCache
  /\ tokenRequests = 0
  /\ tokenCalls = 0
  /\ lastCall = NoCall
  /\ openedAt = 0
  /\ fetch = IdleFetch

-----------------------------------------------------------------------------
(* Input documents *)

MkFlow(id, props) == [id |-> id, ext |-> Ext(props)]

FlowHttpsIn ==
  MkFlow("MessageFlow_1", << P("ComponentType", "HTTPS"), P("Name", "HTTPS_IN"),
                             P("direction", "Sender"),
                             P("senderAuthType", "BasicAuthentication") >>)
FlowOdataOut ==
  MkFlow("MessageFlow_2", << P("ComponentType", "HCIOData"), P("Name", "ODATA_OUT"),
                             P("direction", "Receiver"), P("isCSRFEnabled", "true") >>)
FlowSenderNone ==
  MkFlow("MessageFlow_3", << P("ComponentType", "SOAP"), P("Name", "SOAP_IN"),
                             P("direction", "Sender"), P("senderAuthType", "None") >>)
FlowReceiverCert ==
  MkFlow("MessageFlow_4", << P("ComponentType", "HTTP"), P("Name", "HTTP_OUT"),
                             P("direction", "Receiver"),
                             P("authenticationMethod", "Client Certificate"),
                             P("privateKeyAlias", "key1") >>)
FlowJms ==
  MkFlow("MessageFlow_5", << P("ComponentType", "JMS"), P("Name", "JMS_OUT"),
                             P("direction", "Receiver"), P("queueName", "orders.q") >>)
FlowUnknown ==
  MkFlow("MessageFlow_6", << P("ComponentType", "Unknown"), P("Name", "Mystery"),
                             P("direction", "Unknown") >>)
FlowNoExtension == [id |-> "MessageFlow_7", ext |-> ExtNone]
FlowJmsBare ==
  MkFlow("MessageFlow_8", << P("ComponentType", "JMS"), P("Name", "JMS_IN"),
                             P("direction", "Sender") >>)
FlowQueue ==
  MkFlow("MessageFlow_9", << P("ComponentType", "MessageQueue"), P("Name", "MQ_OUT"),
                             P("direction", "Receiver"), P("queueName", "q2"),
                             P("authenticationMethod", "OAuth2ClientCredentials") >>)
FlowSenderRole ==
  MkFlow("MessageFlow_10", << P("ComponentType", "HTTPS"), P("Name", "HTTPS_IN"),
                              P("direction", "Sender"), P("senderAuthType", "RoleBased"),
                              P("userRole", "ESBMessaging.send"), P("xsrfProtection", "0"),
                              P("isCSRFEnabled", "true") >>)
FlowSpaceName ==
  MkFlow("MessageFlow_11", << P("Name", " HTTPS_IN"), P("direction", "Sender"),
                              P("senderAuthType", "Basic") >>)
FlowSingleProperty == MkFlow("", << P("direction", "Receiver") >>)
FlowMixedAuth ==
  MkFlow("MessageFlow_13", << P("ComponentType", "HTTPS"), P("Name", "MIXED_IN"),
                              P("direction", "Sender"),
                              P("senderAuthType", "ClientCertificateOrBasic") >>)
FlowLongName ==
  MkFlow("MessageFlow_14", << P("ComponentType", "HTTPS"), P("Name", repeat("N", 250)),
                              P("direction", "Sender"),
                              P("senderAuthType", "BasicAuthentication") >>)

Fragments ==
  { FlowHttpsIn, FlowOdataOut, FlowSenderNone, FlowReceiverCert, FlowJms, FlowUnknown,
    FlowNoExtension, FlowJmsBare, FlowQueue, FlowSenderRole, FlowSpaceName,
    FlowSingleProperty, FlowMixedAuth, FlowLongName }

SeqsUpTo(S, n) == UNION {[1..k -> S] : k \in 0..n}

MkNode(id, name, props) == [id |-> id, name |-> name, ext |-> Ext(props)]

MessageEnd == [messageEventDefinition |-> TRUE, escalationEventDefinition |-> FALSE]
EscalationEnd == [messageEventDefinition |-> FALSE, escalationEventDefinition |-> TRUE]
PlainEnd == [messageEventDefinition |-> FALSE, escalationEventDefinition |-> FALSE]

ErrorStart ==
  [id |-> "StartEvent_9", name |-> "Error Start", errorEventDefinition |-> TRUE, errorRef |-> ""]

MkSubProcess(id, props, ends) ==
  [ id |-> id, name |-> "Exception Subprocess", ext |-> Ext(props),
    startEvents |-> <<ErrorStart>>, endEvents |-> ends ]

(* an error subprocess with two properties and a message end event *)
SubErrorResponse ==
  MkSubProcess("SubProcess_1",
               << P("activityType", "ErrorEventSubProcessTemplate"), P("cmdVariantUri", "x") >>,
               << MessageEnd >>)
(* the same evidence, but the extension block holds one property only *)
SubErrorSingle ==
  MkSubProcess("SubProcess_2", << P("activityType", "ErrorEventSubProcessTemplate") >>,
               << EscalationEnd >>)
SubPlain ==
  MkSubProcess("SubProcess_3", << P("activityType", "Subprocess"), P("x", "y") >>, << PlainEnd >>)

MkTask(id, name, props, script) == [id |-> id, name |-> name, ext |-> Ext(props), script |-> script]

TaskRetry ==
  MkTask("ServiceTask_1", "Call", << P("activityType", "ExternalCall"), P("retryCount", "3") >>, "")
TaskDataStore ==
  MkTask("ServiceTask_2", "Write", << P("activityType", "DataStoreWrite"),
                                      P("storeName", "orders") >>, "")
TaskScript ==
  MkTask("ScriptTask_1", "Script", << P("scriptFunction", "run"), P("headerName", "h") >>,
         "message.setProperty('a', 1)")

MkProcess(id, props, subs, services, scripts, calls) ==
  [ id |-> id, name |-> "Integration Process", ext |-> Ext(props), subProcesses |-> subs,
    serviceTasks |-> services, scriptTasks |-> scripts, callActivities |-> calls ]

ProcessWithError ==
  MkProcess("Process_1", << P("transactionTimeout", "30"),
                            P("transactionalHandling", "Required") >>,
            << SubPlain, SubErrorResponse >>, << TaskRetry >>, <<>>, <<>>)
ProcessSingleFirst ==
  MkProcess("Process_1", <<>>, << SubErrorSingle, SubErrorResponse >>, <<>>, <<>>, <<>>)
ProcessTasks ==
  MkProcess("", <<>>, <<>>, << TaskRetry, TaskDataStore >>, << TaskScript >>,
            << [id |-> "CallActivity_1", name |-> "", calledElement |-> "Process_2"] >>)

(* the rest of a document: collaboration properties and processes *)
Rests ==
  { [collaborationExt |-> ExtNone, processes |-> <<>>],
    [collaborationExt |-> Ext(<< P("corsEnabled", "true") >>), processes |-> <<>>],
    [collaborationExt |-> Ext(<< P("namespaceMapping", "x"), P("log", "All"),
                                 P("returnExceptionToSender", "true"),
                                 P("ServerTrace", "false") >>),
     processes |-> << ProcessWithError >>],
    [collaborationExt |-> Ext(<< P("transactionalHandling", "Required"),
                                 P("processType", "ProcessDirect") >>),
     processes |-> << ProcessWithError, ProcessTasks >>],
    [collaborationExt |-> Ext(<< P("namespaceMapping", "x"), P("persist", "false"),
                                 P("corsEnabled", "false") >>),
     processes |-> << ProcessSingleFirst >>],
    [collaborationExt |-> ExtNone, processes |-> << ProcessTasks >>] }

MkDoc(flows, rest) ==
  [ kind |-> "doc", definitions |-> TRUE, collaboration |-> TRUE,
    collaborationExt |-> rest.collaborationExt, messageFlows |-> flows,
    processes |-> rest.processes ]

(* well-formed XML whose root is not bpmn2:definitions *)
DocNoDefinitions ==
  [ kind |-> "doc", definitions |-> FALSE, collaboration |-> FALSE,
    collaborationExt |-> ExtNone, messageFlows |-> <<>>, processes |-> <<>> ]
(* definitions without a collaboration element *)
DocNoCollaboration ==
  [ kind |-> "doc", definitions |-> TRUE, collaboration |-> FALSE,
    collaborationExt |-> ExtNone, messageFlows |-> <<>>, processes |-> << ProcessWithError >> ]

MalformedXml == [kind |-> "malformed"]

Docs ==
  {MkDoc(flows, rest) : flows \in SeqsUpTo(Fragments, MaxFlows), rest \in Rests}
    \cup {DocNoDefinitions, DocNoCollaboration}

-----------------------------------------------------------------------------
(* Input archives *)

MaxEntries == 3      \* entries per archive in the unpacking cases

Entry(name, readable, content) ==
  [entryName |-> name, readable |-> readable, content |-> content]

IflwPath == "src/main/resources/scenarioflows/integrationflow/"

DocA == MkDoc(<< FlowHttpsIn >>, [collaborationExt |-> ExtNone, processes |-> <<>>])
DocB == MkDoc(<< FlowOdataOut >>, [collaborationExt |-> ExtNone, processes |-> <<>>])

ArchiveEntries ==
  { Entry("META-INF/MANIFEST.MF", TRUE, MalformedXml),
    Entry(IflwPath \o "a.iflw", TRUE, DocA),
    Entry(IflwPath \o "b.iflw", TRUE, DocB),
    Entry(IflwPath \o "broken.iflw", TRUE, MalformedXml),
    Entry(IflwPath \o "locked.iflw", FALSE, DocA),
    Entry(IflwPath \o "a.iflw.bak", TRUE, DocB),
    Entry("iflw", TRUE, DocB) }

MkFlowData(id, valid, entries) ==
  [Id |-> id, Version |-> "1.0.0", zip |-> [valid |-> valid, entries |-> entries]]

(* the archive the platform exports for a document *)
ArchiveOf(id, doc) ==
  MkFlowData(id, TRUE, << Entry("META-INF/MANIFEST.MF", TRUE, MalformedXml),
                          Entry(IflwPath \o id \o ".iflw", TRUE, doc) >>)

UnpackCases ==
  {MkFlowData("Flow_U", TRUE, es) : es \in SeqsUpTo(ArchiveEntries, MaxEntries)}
    \cup {MkFlowData("Flow_U", FALSE, <<>>), MkFlowData("", TRUE, <<>>)}

FlowsDataSet == {ArchiveOf("Flow_A", d) : d \in Docs} \cup UnpackCases

RunDocs ==
  { MkDoc(<< FlowJms, FlowHttpsIn >>,
          [collaborationExt |-> Ext(<< P("corsEnabled", "true") >>),
           processes |-> << ProcessWithError, ProcessTasks >>]),
    MkDoc(<< FlowOdataOut, FlowOdataOut >>,
          [collaborationExt |-> ExtNone, processes |-> << ProcessTasks >>]) }

RunFlowsDataSet ==
  {ArchiveOf("Flow_A", d) : d \in RunDocs}
    \cup {ArchiveOf("Flow_B", MkDoc(<< FlowQueue >>,
                                    [collaborationExt |-> ExtNone, processes |-> <<>>])),
          MkFlowData("Flow_A", TRUE, <<>>), MkFlowData("", TRUE, <<>>)}

-----------------------------------------------------------------------------
(* services/dataSyncService.js: the for-loop of syncPackageIntegrationFlows. *)
(* The locals of the loop body are Undefined until the body assigns them.   *)

NoFlowDetails == [id |-> "", parsedXml |-> NullXml]

InitLocals ==
  /\ pc = "loop"
  /\ zipBuffer = [valid |-> FALSE, entries |-> <<>>]
  /\ flowDetails = NoFlowDetails
  /\ adapters = Undefined
  /\ securityMechanisms = Undefined
  /\ errorHandling = Undefined
  /\ persistence = Undefined
  /\ processedSecurity = Undefined
  /\ processedAdapters = Undefined
  /\ processedErrorHandling = Undefined
  /\ processedPersistence = Undefined
  /\ iflowRecords = <<>>
  /\ housekeepingFiles = {}
  /\ flowLog = <<>>
  /\ configured = TRUE
  /\ InitAuthService

Init ==
  /\ flowsData \in {<<fd>> : fd \in FlowsDataSet}
  /\ InitLocals

InitRuns ==
  /\ flowsData \in SeqsUpTo(RunFlowsDataSet, MaxRuns)
  /\ InitLocals

(* catch (error) { logger.error('Error processing flow', ...); continue; } :
   where the loop goes after a step of one flow has raised *)
onFlowFailure_Rethrow == "done"
onFlowFailure == "loop"

(* the outer try/catch of the extractors: what is thrown inside one is logged
   there and replaced by its default result, so nothing reaches the caller *)
extractorRaises_Uncaught(name, px) == name = "extractErrorHandling" /\ px.kind # "null" /\ px.definitions /\ collaborationErrorHandlingThrows(px)
extractorRaises(name, px) == FALSE

(* one flow is left: its log line is written and the iteration ends *)
leaveFlow(outcome, target) ==
  /\ flowLog' = Append(flowLog, [flowData |-> Head(flowsData), outcome |-> outcome])
  /\ flowsData' = Tail(flowsData)
  /\ pc' = target

(* if (!flowData.Id) continue *)
SkipFlowWithoutId ==
  /\ pc = "loop"
  /\ flowsData # <<>>
  /\ Head(flowsData).Id = ""
  /\ leaveFlow("no id", "loop")
  /\ UNCHANGED <<zipBuffer, flowDetails, adapters, securityMechanisms, errorHandling,
                 persistence, processedSecurity, processedAdapters, processedErrorHandling,
                 processedPersistence, iflowRecords, housekeepingFiles>>
  /\ UNCHANGED apiVars

(* fetchIntegrationFlowDetails, then the two `continue` checks that follow it *)
FetchIntegrationFlowDetails ==
  /\ pc = "loop"
  /\ flowsData # <<>>
  /\ Head(flowsData).Id # ""
  /\ \E zipWriteOk \in BOOLEAN, xmlWriteOk \in BOOLEAN :
       LET flowData == Head(flowsData)
           parsedXml == extractXmlFromZip(flowData.zip, zipWriteOk, xmlWriteOk)
       IN  /\ zipBuffer' = flowData.zip
           /\ flowDetails' = [id |-> flowData.Id, parsedXml |-> parsedXml]
           /\ housekeepingFiles' = housekeepingFiles \cup
                housekeepingWrites(flowData.zip, flowData.Id, zipWriteOk, xmlWriteOk)
           /\ IF parsedXml = NullXml
                THEN leaveFlow("no document", "loop")
                ELSE /\ pc' = "extractAdapters"
                     /\ UNCHANGED <<flowsData, flowLog>>
  /\ UNCHANGED <<adapters, securityMechanisms, errorHandling, persistence, processedSecurity,
                 processedAdapters, processedErrorHandling, processedPersistence, iflowRecords>>
  /\ UNCHANGED apiVars

ExtractAdaptersFromXml ==
  /\ pc = "extractAdapters"
  /\ IF extractorRaises("extractAdapters", flowDetails.parsedXml)
       THEN /\ leaveFlow("extraction raised", onFlowFailure)
            /\ UNCHANGED adapters
       ELSE /\ adapters' = extractAdapters(flowDetails.parsedXml)
            /\ pc' = "extractSecurity"
            /\ UNCHANGED <<flowsData, flowLog>>
  /\ UNCHANGED <<zipBuffer, flowDetails, securityMechanisms, errorHandling,
                 persistence, processedSecurity, processedAdapters, processedErrorHandling,
                 processedPersistence, iflowRecords, housekeepingFiles>>
  /\ UNCHANGED apiVars

ExtractSecurityFromXml ==
  /\ pc = "extractSecurity"
  /\ IF extractorRaises("extractSecurity", flowDetails.parsedXml)
       THEN /\ leaveFlow("extraction raised", onFlowFailure)
            /\ UNCHANGED securityMechanisms
       ELSE /\ securityMechanisms' = extractSecurity(flowDetails.parsedXml, flowDetails.id)
            /\ pc' = "extractErrorHandling"
            /\ UNCHANGED <<flowsData, flowLog>>
  /\ UNCHANGED <<zipBuffer, flowDetails, adapters, errorHandling,
                 persistence, processedSecurity, processedAdapters, processedErrorHandling,
                 processedPersistence, iflowRecords, housekeepingFiles>>
  /\ UNCHANGED apiVars

ExtractErrorHandlingFromXml ==
  /\ pc = "extractErrorHandling"
  /\ IF extractorRaises("extractErrorHandling", flowDetails.parsedXml)
       THEN /\ leaveFlow("extraction raised", onFlowFailure)
            /\ UNCHANGED errorHandling
       ELSE /\ errorHandling' = extractErrorHandling(flowDetails.parsedXml)
            /\ pc' = "extractPersistence"
            /\ UNCHANGED <<flowsData, flowLog>>
  /\ UNCHANGED <<zipBuffer, flowDetails, adapters, securityMechanisms,
                 persistence, processedSecurity, processedAdapters, processedErrorHandling,
                 processedPersistence, iflowRecords, housekeepingFiles>>
  /\ UNCHANGED apiVars

ExtractPersistenceFromXml ==
  /\ pc = "extractPersistence"
  /\ IF extractorRaises("extractPersistence", flowDetails.parsedXml)
       THEN /\ leaveFlow("extraction raised", onFlowFailure)
            /\ UNCHANGED persistence
       ELSE /\ persistence' = extractPersistence(flowDetails.parsedXml)
            /\ pc' = "syncIflow"
            /\ UNCHANGED <<flowsData, flowLog>>
  /\ UNCHANGED <<zipBuffer, flowDetails, adapters, securityMechanisms,
                 errorHandling, processedSecurity, processedAdapters, processedErrorHandling,
                 processedPersistence, iflowRecords, housekeepingFiles>>
  /\ UNCHANGED apiVars

(* processIntegrationFlowData, models.Iflow.findOrCreate, iflowRecord.update and
   models.IflowHistory.create: the store answers or raises *)
SyncIflowRecord ==
  /\ pc = "syncIflow"
  /\ \E stored \in BOOLEAN :
       IF stored
         THEN /\ pc' = "processSecurity"
              /\ UNCHANGED <<flowsData, flowLog>>
         ELSE leaveFlow("storage failed", onFlowFailure)
  /\ UNCHANGED <<zipBuffer, flowDetails, adapters, securityMechanisms, errorHandling,
                 persistence, processedSecurity, processedAdapters, processedErrorHandling,
                 processedPersistence, iflowRecords, housekeepingFiles>>
  /\ UNCHANGED apiVars

(* processSecurityMechanisms, then await syncSecurityMechanisms *)
ProcessSecurityMechanisms ==
  /\ pc = "processSecurity"
  /\ processedSecurity' = processSecurityMechanisms(securityMechanisms)
  /\ \E synced \in BOOLEAN :
       IF synced
         THEN /\ pc' = "processAdapters"
              /\ UNCHANGED <<flowsData, flowLog>>
         ELSE leaveFlow("storage failed", onFlowFailure)
  /\ UNCHANGED <<zipBuffer, flowDetails, adapters, securityMechanisms,
                 errorHandling, persistence, processedAdapters, processedErrorHandling,
                 processedPersistence, iflowRecords, housekeepingFiles>>
  /\ UNCHANGED apiVars

(* processAdapters, then await syncAdapters *)
ProcessAdapters ==
  /\ pc = "processAdapters"
  /\ processedAdapters' = processAdapters(adapters)
  /\ \E synced \in BOOLEAN :
       IF synced
         THEN /\ pc' = "processErrorHandling"
              /\ UNCHANGED <<flowsData, flowLog>>
         ELSE leaveFlow("storage failed", onFlowFailure)
  /\ UNCHANGED <<zipBuffer, flowDetails, adapters, securityMechanisms,
                 errorHandling, persistence, processedSecurity, processedErrorHandling,
                 processedPersistence, iflowRecords, housekeepingFiles>>
  /\ UNCHANGED apiVars

(* processErrorHandling, then await syncErrorHandling *)
ProcessErrorHandling ==
  /\ pc = "processErrorHandling"
  /\ processedErrorHandling' = processErrorHandling(withBooleanFlags(errorHandling))
  /\ \E synced \in BOOLEAN :
       IF synced
         THEN /\ pc' = "processPersistence"
              /\ UNCHANGED <<flowsData, flowLog>>
         ELSE leaveFlow("storage failed", onFlowFailure)
  /\ UNCHANGED <<zipBuffer, flowDetails, adapters, securityMechanisms,
                 errorHandling, persistence, processedSecurity, processedAdapters,
                 processedPersistence, iflowRecords, housekeepingFiles>>
  /\ UNCHANGED apiVars

(* processPersistence, await syncPersistence, the deployment and runtime syncs,
   and iflowRecords.push(iflowRecord) *)
ProcessPersistence ==
  /\ pc = "processPersistence"
  /\ processedPersistence' = processPersistence(withBooleanFlags(persistence))
  /\ \E synced \in BOOLEAN :
       IF synced
         THEN /\ iflowRecords' = Append(iflowRecords,
                   [ flowData |-> Head(flowsData),
                     security |-> processedSecurity,
                     adapters |-> processedAdapters,
                     errorHandling |-> processedErrorHandling,
                     persistence |-> processedPersistence' ])
              /\ leaveFlow("synced", "loop")
         ELSE /\ leaveFlow("storage failed", onFlowFailure)
              /\ UNCHANGED iflowRecords
  /\ UNCHANGED <<zipBuffer, flowDetails, adapters, securityMechanisms, errorHandling,
                 persistence, processedSecurity, processedAdapters, processedErrorHandling,
                 housekeepingFiles>>
  /\ UNCHANGED apiVars

(* the loop ends and iflowRecords is returned *)
ReturnRecords ==
  /\ pc = "loop"
  /\ flowsData = <<>>
  /\ pc' = "done"
  /\ UNCHANGED <<flowsData, flowLog, zipBuffer, flowDetails, adapters, securityMechanisms,
                 errorHandling, persistence, processedSecurity, processedAdapters,
                 processedErrorHandling, processedPersistence, iflowRecords, housekeepingFiles>>
  /\ UNCHANGED apiVars

Next ==
  \/ SkipFlowWithoutId
  \/ FetchIntegrationFlowDetails
  \/ ExtractAdaptersFromXml
  \/ ExtractSecurityFromXml
  \/ ExtractErrorHandlingFromXml
  \/ ExtractPersistenceFromXml
  \/ SyncIflowRecord
  \/ ProcessSecurityMechanisms
  \/ ProcessAdapters
  \/ ProcessErrorHandling
  \/ ProcessPersistence
  \/ ReturnRecords

Spec == Init /\ [][Next]_vars

SpecRuns == InitRuns /\ [][Next]_vars

-----------------------------------------------------------------------------
(* The four extractors on a document that fetchIntegrationFlowDetails has   *)
(* just returned: documents that vary the end events of an error subprocess *)
(* and the collaboration properties the persistence extractor reads.        *)

MaxEndEvents == 2            \* end events of the error subprocess
MaxCollaborationProps == 3   \* collaboration properties of a document

BothEnd == [messageEventDefinition |-> TRUE, escalationEventDefinition |-> TRUE]
EndEvents == {MessageEnd, EscalationEnd, PlainEnd, BothEnd}

ProcessEnding(ends) ==
  MkProcess("Process_1", <<>>,
            << MkSubProcess("SubProcess_1",
                            << P("activityType", "ErrorEventSubProcessTemplate"),
                               P("cmdVariantUri", "x") >>, ends) >>,
            <<>>, <<>>, <<>>)

CollaborationPersistenceProps ==
  { P("transactionalHandling", "Required"), P("transactionalHandling", "None"),
    P("persist", "false"), P("messagePersistenceEnabled", "true") }

ExtractDocs ==
  { MkDoc(<<>>, [collaborationExt |-> ExtNone, processes |-> << ProcessEnding(ends) >>]) :
      ends \in SeqsUpTo(EndEvents, MaxEndEvents) }
    \cup
  { MkDoc(flows, [collaborationExt |-> Ext(props), processes |-> <<>>]) :
      flows \in {<<>>, << FlowJms >>},
      props \in SeqsUpTo(CollaborationPersistenceProps, MaxCollaborationProps) }

InitExtract ==
  \E doc \in ExtractDocs :
    /\ flowsData = << ArchiveOf("Flow_A", doc) >>
    /\ pc = "extractAdapters"
    /\ zipBuffer = ArchiveOf("Flow_A", doc).zip
    /\ flowDetails = [id |-> "Flow_A", parsedXml |-> doc]
    /\ adapters = Undefined
    /\ securityMechanisms = Undefined
    /\ errorHandling = Undefined
    /\ persistence = Undefined
    /\ processedSecurity = Undefined
    /\ processedAdapters = Undefined
    /\ processedErrorHandling = Undefined
    /\ processedPersistence = Undefined
    /\ iflowRecords = <<>>
    /\ housekeepingFiles = {"Flow_A.zip", "Flow_A.iflw"}
    /\ flowLog = <<>>
  /\ configured = TRUE
  /\ InitAuthService

NextExtract ==
  \/ ExtractAdaptersFromXml
  \/ ExtractSecurityFromXml
  \/ ExtractErrorHandlingFromXml
  \/ ExtractPersistenceFromXml

SpecExtract == InitExtract /\ [][NextExtract]_vars

-----------------------------------------------------------------------------
(* services/processing: the four processors applied to raw extractor-shaped *)
(* values. One of securityMechanisms, adapters, errorHandling, persistence  *)
(* holds the argument and the matching processed variable the result.       *)

MaxRawRecords == 2   \* records in the list handed to a processor

RawMechanism(name, type, direction, configuration) ==
  [ mechanism_name |-> name, mechanism_type |-> type,
    direction |-> direction, configuration |-> configuration ]

RawSecurityMechanisms ==
  { RawMechanism("HTTPS_IN_Auth", "BasicAuthentication", "Inbound", <<>>),
    RawMechanism("ODATA_OUT_Auth", "OAuth2", "Outbound", <<>>),
    RawMechanism("CORS_OUT", "CORS", " Outbound ", <<>>),
    RawMechanism("", "OAuth", "Inbound", <<>>),
    RawMechanism("NoType", "", "", <<>>),
    RawMechanism(" ", "SAML", "", <<>>),
    RawMechanism("Flow_CSRF", "CSRF Protection", "", <<>>),
    RawMechanism("Flow_CORS", "CORS", "Sender", <<>>),
    RawMechanism("Receiver_Token", "Receiver Token", "Unknown", <<>>),
    RawMechanism("Cert_Key", "Client Certificate", "",
                 << [key |-> "privateKeyAlias", val |-> Str("key1")] >>),
    RawMechanism("Cert_In", "Client Certificate", "",
                 << [key |-> "senderAuthType", val |-> Str("ClientCertificate")] >>),
    RawMechanism("Token", "JWT", "", <<>>) }

RawAdapter(name, type, category, direction) ==
  [ adapter_name |-> name, adapter_type |-> type,
    adapter_category |-> category, direction |-> direction,
    configuration |-> [ content |-> << [key |-> "name", val |-> Str(name)] >>,
                        resourceMetadata |-> [ name |-> name, cmdVariantUri |-> "N/A",
                                               componentType |-> type ] ] ]

RawAdapters ==
  { RawAdapter("HTTPS_IN", "HTTPS", "Sender", "Sender"),
    RawAdapter("ODATA_OUT", "HCIOData", "Receiver", "Receiver"),
    RawAdapter("", "HTTPS", "Sender", "Sender"),
    RawAdapter("NoType", "", "Receiver", "Receiver"),
    RawAdapter(" ", "SFTP", "Sender", "Sender"),
    RawAdapter("Mail", "Mail", "", ""),
    RawAdapter("Proxy_In", "Inbound Proxy", "", ""),
    RawAdapter("SFTP_Out", "SFTP Receiver", "", ""),
    RawAdapter("SOAP_Cat", "SOAP", "Receiver", ""),
    RawAdapter("SOAP_Both", "SOAP", "Bidirectional", "Bidirectional") }

(* what a flag of a raw aggregate may hold *)
RawFlags == {Bool(TRUE), Bool(FALSE), Str("false"), Str("true"), Undefined}

RawErrorHandling ==
  { [ detection_enabled |-> d, logging_enabled |-> l,
      classification_enabled |-> c, reporting_enabled |-> r,
      error_handling_details |-> getDefaultErrorHandling.error_handling_details ] :
      d \in RawFlags, l \in RawFlags, c \in {Bool(FALSE), Str("false")},
      r \in {Bool(TRUE), Undefined} }

RawPersistence ==
  { [ jms_enabled |-> j, data_store_enabled |-> d,
      variables_enabled |-> v, message_persistence_enabled |-> m,
      persistence_details |-> getDefaultPersistence.persistence_details ] :
      j \in RawFlags, d \in {Bool(FALSE), Str("false")},
      v \in {Bool(TRUE), Undefined}, m \in RawFlags }

InitProcess ==
  /\ flowsData = <<>>
  /\ zipBuffer = [valid |-> FALSE, entries |-> <<>>]
  /\ flowDetails = NoFlowDetails
  /\ processedSecurity = Undefined
  /\ processedAdapters = Undefined
  /\ processedErrorHandling = Undefined
  /\ processedPersistence = Undefined
  /\ iflowRecords = <<>>
  /\ housekeepingFiles = {}
  /\ flowLog = <<>>
  /\ configured = TRUE
  /\ InitAuthService
  /\ \/ /\ pc = "rawSecurity"
        /\ securityMechanisms \in SeqsUpTo(RawSecurityMechanisms, MaxRawRecords)
        /\ adapters = Undefined /\ errorHandling = Undefined /\ persistence = Undefined
     \/ /\ pc = "rawAdapters"
        /\ adapters \in SeqsUpTo(RawAdapters, MaxRawRecords)
        /\ securityMechanisms = Undefined /\ errorHandling = Undefined
        /\ persistence = Undefined
     \/ /\ pc = "rawErrorHandling"
        /\ errorHandling \in RawErrorHandling
        /\ securityMechanisms = Undefined /\ adapters = Undefined
        /\ persistence = Undefined
     \/ /\ pc = "rawPersistence"
        /\ persistence \in RawPersistence
        /\ securityMechanisms = Undefined /\ adapters = Undefined
        /\ errorHandling = Undefined

ProcessRawSecurityMechanisms ==
  /\ pc = "rawSecurity"
  /\ processedSecurity' = processSecurityMechanisms(securityMechanisms)
  /\ pc' = "securityProcessed"
  /\ UNCHANGED <<flowsData, zipBuffer, flowDetails, adapters, securityMechanisms,
                 errorHandling, persistence, processedAdapters, processedErrorHandling,
                 processedPersistence, iflowRecords, housekeepingFiles, flowLog>>
  /\ UNCHANGED apiVars

ProcessRawAdapters ==
  /\ pc = "rawAdapters"
  /\ processedAdapters' = processAdapters(adapters)
  /\ pc' = "adaptersProcessed"
  /\ UNCHANGED <<flowsData, zipBuffer, flowDetails, adapters, securityMechanisms,
                 errorHandling, persistence, processedSecurity, processedErrorHandling,
                 processedPersistence, iflowRecords, housekeepingFiles, flowLog>>
  /\ UNCHANGED apiVars

ProcessRawErrorHandling ==
  /\ pc = "rawErrorHandling"
  /\ processedErrorHandling' = processErrorHandling(errorHandling)
  /\ pc' = "errorHandlingProcessed"
  /\ UNCHANGED <<flowsData, zipBuffer, flowDetails, adapters, securityMechanisms,
                 errorHandling, persistence, processedSecurity, processedAdapters,
                 processedPersistence, iflowRecords, housekeepingFiles, flowLog>>
  /\ UNCHANGED apiVars

ProcessRawPersistence ==
  /\ pc = "rawPersistence"
  /\ processedPersistence' = processPersistence(persistence)
  /\ pc' = "persistenceProcessed"
  /\ UNCHANGED <<flowsData, zipBuffer, flowDetails, adapters, securityMechanisms,
                 errorHandling, persistence, processedSecurity, processedAdapters,
                 processedErrorHandling, iflowRecords, housekeepingFiles, flowLog>>
  /\ UNCHANGED apiVars

NextProcess ==
  \/ ProcessRawSecurityMechanisms
  \/ ProcessRawAdapters
  \/ ProcessRawErrorHandling
  \/ ProcessRawPersistence

SpecProcess == InitProcess /\ [][NextProcess]_vars

-----------------------------------------------------------------------------
(* services/authService.js and services/dataFetchService.js: getOAuthToken  *)
(* called by any caller while time passes, and one call of fetchFromApi.    *)

MaxTime == 7         \* the clock stops here
MaxTokenCalls == 5   \* getOAuthToken calls made by callers other than fetchFromApi

HttpStatuses == {200, 401, 500}

InitApi ==
  /\ flowsData = <<>>
  /\ pc = "api"
  /\ zipBuffer = [valid |-> FALSE, entries |-> <<>>]
  /\ flowDetails = NoFlowDetails
  /\ adapters = Undefined
  /\ securityMechanisms = Undefined
  /\ errorHandling = Undefined
  /\ persistence = Undefined
  /\ processedSecurity = Undefined
  /\ processedAdapters = Undefined
  /\ processedErrorHandling = Undefined
  /\ processedPersistence = Undefined
  /\ iflowRecords = <<>>
  /\ housekeepingFiles = {}
  /\ flowLog = <<>>
  /\ configured \in BOOLEAN
  /\ InitAuthService

(* the module state a getOAuthToken call leaves, and the record of the call *)
getOAuthTokenReturns(result) ==
  /\ circuitBreaker' = result.circuitBreaker
  /\ tokenCache' = result.tokenCache
  /\ tokenRequests' = IF result.requested THEN tokenRequests + 1 ELSE tokenRequests
  /\ lastCall' = [ at |-> now, outcome |-> result.outcome, requested |-> result.requested,
                   before |-> circuitBreaker, after |-> result.circuitBreaker ]
  /\ openedAt' = IF ~circuitBreaker.isOpen /\ result.circuitBreaker.isOpen
                   THEN now ELSE openedAt

(* a minute passes *)
Tick ==
  /\ now < MaxTime
  /\ now' = now + 1
  /\ UNCHANGED <<configured, circuitBreaker, tokenCache, tokenRequests, tokenCalls,
                 lastCall, openedAt, fetch>>
  /\ UNCHANGED pipelineVars

(* some caller awaits getOAuthToken() *)
GetOAuthToken ==
  /\ tokenCalls < MaxTokenCalls
  /\ tokenCalls' = tokenCalls + 1
  /\ \E response \in TokenResponses :
       getOAuthTokenReturns(
         getOAuthToken(circuitBreaker, tokenCache, now, tokenRequests, response))
  /\ UNCHANGED <<now, configured, fetch>>
  /\ UNCHANGED pipelineVars

(* fetchFromApi is called: getAuthHeaders, then the request is sent *)
FetchFromApi ==
  /\ fetch.stage = "idle"
  /\ \E response \in TokenResponses :
       LET result == getOAuthToken(circuitBreaker, tokenCache, now, tokenRequests, response)
       IN  /\ getOAuthTokenReturns(result)
           /\ fetch' = IF result.token # 0
                         THEN [fetch EXCEPT !.stage = "request", !.token = result.token]
                         ELSE [fetch EXCEPT !.stage = "raised"]
  /\ UNCHANGED <<now, configured, tokenCalls>>
  /\ UNCHANGED pipelineVars

(* the first request is answered: data is returned, or the catch block runs; *)
(* on status 401 it clears the token cache and calls getAuthHeaders again    *)
FirstResponse ==
  /\ fetch.stage = "request"
  /\ \E status \in HttpStatuses :
       LET requests == Append(fetch.requests, [token |-> fetch.token, status |-> status])
       IN  IF status = 401
             THEN \E response \in TokenResponses :
                    LET result == getOAuthToken(circuitBreaker, clearTokenCache(tokenCache),
                                                now, tokenRequests, response)
                    IN  /\ getOAuthTokenReturns(result)
                        /\ fetch' = IF result.token # 0
                                      THEN [ stage |-> "retry", token |-> result.token,
                                             requests |-> requests ]
                                      ELSE [ stage |-> "raised", token |-> 0,
                                             requests |-> requests ]
             ELSE /\ fetch' = [ stage |-> IF status = 200 THEN "returned" ELSE "raised",
                                token |-> fetch.token, requests |-> requests ]
                  /\ UNCHANGED <<circuitBreaker, tokenCache, tokenRequests, lastCall, openedAt>>
  /\ UNCHANGED <<now, configured, tokenCalls>>
  /\ UNCHANGED pipelineVars

(* the retried request is answered: data is returned or retryError is thrown *)
RetryResponse ==
  /\ fetch.stage = "retry"
  /\ \E status \in HttpStatuses :
       fetch' = [ stage |-> IF status = 200 THEN "returned" ELSE "raised",
                  token |-> fetch.token,
                  requests |-> Append(fetch.requests,
                                      [token |-> fetch.token, status |-> status]) ]
  /\ UNCHANGED <<now, configured, circuitBreaker, tokenCache, tokenRequests, tokenCalls,
                 lastCall, openedAt>>
  /\ UNCHANGED pipelineVars

NextApi ==
  \/ Tick
  \/ GetOAuthToken
  \/ FetchFromApi
  \/ FirstResponse
  \/ RetryResponse

SpecApi == InitApi /\ [][NextApi]_vars

-----------------------------------------------------------------------------
(* services/processing/securityProcessor.js: deduplicateSecurityMechanisms  *)
(* applied to a list of processed records, and again to its own result.     *)
(* securityMechanisms holds the argument, processedSecurity the result.     *)

MaxMechanisms == 3   \* records in the list handed to the deduplication step

DedupMechanisms ==
  { [mechanism_name |-> n, mechanism_type |-> t, direction |-> d] :
      n \in {"HTTPS_IN", "HTTPS_IN_Inbound"},
      t \in {"OAuth", "Basic Authentication"},
      d \in {"Inbound", "Outbound"} }

InitDedup ==
  /\ flowsData = <<>>
  /\ pc = "deduplicate"
  /\ zipBuffer = [valid |-> FALSE, entries |-> <<>>]
  /\ flowDetails = NoFlowDetails
  /\ adapters = Undefined
  /\ securityMechanisms \in SeqsUpTo(DedupMechanisms, MaxMechanisms)
  /\ errorHandling = Undefined
  /\ persistence = Undefined
  /\ processedSecurity = Undefined
  /\ processedAdapters = Undefined
  /\ processedErrorHandling = Undefined
  /\ processedPersistence = Undefined
  /\ iflowRecords = <<>>
  /\ housekeepingFiles = {}
  /\ flowLog = <<>>
  /\ configured = TRUE
  /\ InitAuthService

DeduplicateSecurityMechanisms ==
  /\ pc = "deduplicate"
  /\ processedSecurity' = deduplicateSecurityMechanisms(securityMechanisms)
  /\ pc' = "deduplicated"
  /\ UNCHANGED <<flowsData, zipBuffer, flowDetails, adapters, securityMechanisms,
                 errorHandling, persistence, processedAdapters, processedErrorHandling,
                 processedPersistence, iflowRecords, housekeepingFiles, flowLog>>
  /\ UNCHANGED apiVars

(* the result is handed to the function a second time *)
DeduplicateAgain ==
  /\ pc = "deduplicated"
  /\ securityMechanisms' = processedSecurity
  /\ processedSecurity' = deduplicateSecurityMechanisms(processedSecurity)
  /\ pc' = "deduplicatedAgain"
  /\ UNCHANGED <<flowsData, zipBuffer, flowDetails, adapters,
                 errorHandling, persistence, processedAdapters, processedErrorHandling,
                 processedPersistence, iflowRecords, housekeepingFiles, flowLog>>
  /\ UNCHANGED apiVars

NextDedup ==
  \/ DeduplicateSecurityMechanisms
  \/ DeduplicateAgain

SpecDedup == InitDedup /\ [][NextDedup]_vars

-----------------------------------------------------------------------------
(* Properties of the pipeline *)

AfterExtractAdapters ==
  pc \in {"extractSecurity", "extractErrorHandling", "extractPersistence", "processSecurity",
          "processAdapters", "processErrorHandling", "processPersistence"}
AfterExtractSecurity == AfterExtractAdapters /\ pc # "extractSecurity"
AfterExtractErrorHandling == AfterExtractSecurity /\ pc # "extractErrorHandling"
AfterExtractPersistence == AfterExtractErrorHandling /\ pc # "extractPersistence"
AfterProcessSecurity == AfterExtractPersistence /\ pc # "processSecurity"

(* the message-flow fragments of the document being processed *)
fetchedFlows == getMessageFlows(flowDetails.parsedXml)
propertyOf(flow, key) == getPropertyValue(flow.ext.props, key)
(* Name, else the fragment id, else Adapter_<0-based position> *)
fragmentName(i) ==
  LET flow == fetchedFlows[i] IN
    IF propertyOf(flow, "Name") # "" THEN propertyOf(flow, "Name")
    ELSE IF flow.id # "" THEN flow.id
    ELSE "Adapter_" \o numToString(i - 1)
hasMechanism(list, name, direction) ==
  \E k \in 1..Len(list) : list[k].mechanism_name = name /\ list[k].direction = direction
(* the authentication record of fragment i, auth value a, has the given direction *)
authRecordHas(i, a, direction) ==
  hasMechanism(securityMechanisms, fragmentName(i) \o "_" \o a, direction)

(* C1 as stated: every Sender fragment with a non-empty senderAuthType     *)
(* yields a record with direction Inbound, every Receiver fragment with a  *)
(* non-empty authenticationMethod a record with direction Outbound.        *)
C1_AnyAuthValueYieldsRecord ==
  AfterExtractSecurity =>
    \A i \in 1..Len(fetchedFlows) :
      LET flow == fetchedFlows[i] IN
        /\ (propertyOf(flow, "direction") = "Sender" /\ propertyOf(flow, "senderAuthType") # "")
             => authRecordHas(i, propertyOf(flow, "senderAuthType"), "Inbound")
        /\ (propertyOf(flow, "direction") = "Receiver"
              /\ propertyOf(flow, "authenticationMethod") # "")
             => authRecordHas(i, propertyOf(flow, "authenticationMethod"), "Outbound")

(* C1, amended: a Sender fragment whose senderAuthType is neither empty    *)
(* nor "None" yields an authentication record with direction Inbound, a    *)
(* Receiver fragment whose authenticationMethod is neither empty nor       *)
(* "None" yields one with direction Outbound.                              *)
C1_DirectionInversion ==
  AfterExtractSecurity =>
    \A i \in 1..Len(fetchedFlows) :
      LET flow == fetchedFlows[i] IN
        /\ (propertyOf(flow, "direction") = "Sender"
              /\ propertyOf(flow, "senderAuthType") \notin {"", "None"})
             => authRecordHas(i, propertyOf(flow, "senderAuthType"), "Inbound")
        /\ (propertyOf(flow, "direction") = "Receiver"
              /\ propertyOf(flow, "authenticationMethod") \notin {"", "None"})
             => authRecordHas(i, propertyOf(flow, "authenticationMethod"), "Outbound")

(* a document with a Sender and a Receiver fragment, both authenticated,   *)
(* has been through the security extractor                                 *)
C1_Witness ==
  /\ AfterExtractSecurity
  /\ \E i, j \in 1..Len(fetchedFlows) :
       /\ propertyOf(fetchedFlows[i], "direction") = "Sender"
       /\ propertyOf(fetchedFlows[i], "senderAuthType") \notin {"", "None"}
       /\ authRecordHas(i, propertyOf(fetchedFlows[i], "senderAuthType"), "Inbound")
       /\ propertyOf(fetchedFlows[j], "direction") = "Receiver"
       /\ propertyOf(fetchedFlows[j], "authenticationMethod") \notin {"", "None"}
       /\ authRecordHas(j, propertyOf(fetchedFlows[j], "authenticationMethod"), "Outbound")

(* C2: after processSecurityMechanisms no two records of the processed     *)
(* list share both mechanism name and direction.                           *)
C2_NoDuplicateNameAndDirection ==
  AfterProcessSecurity =>
    \A i, j \in 1..Len(processedSecurity) :
      (processedSecurity[i].mechanism_name = processedSecurity[j].mechanism_name
         /\ processedSecurity[i].direction = processedSecurity[j].direction) => i = j

(* the archive handed to the unpacker has been unpacked *)
Unpacked == flowDetails.id # ""
iflwEntries == {i \in 1..Len(zipBuffer.entries) : endsWith(zipBuffer.entries[i].entryName, ".iflw")}

(* C3: an archive without an entry whose name ends in ".iflw" unpacks to   *)
(* the failure value; a document that is returned is the content of the    *)
(* first such entry in archive order; and when that entry was read and     *)
(* saved and is well-formed, it is returned, however many entries match.   *)
C3_FirstIflwEntry ==
  Unpacked =>
    /\ iflwEntries = {} => flowDetails.parsedXml = NullXml
    /\ flowDetails.parsedXml # NullXml =>
         \E i \in iflwEntries :
           /\ \A j \in iflwEntries : i <= j
           /\ flowDetails.parsedXml = zipBuffer.entries[i].content
    /\ \A i \in iflwEntries :
         ((\A j \in iflwEntries : i <= j)
            /\ (flowDetails.id \o ".iflw") \in housekeepingFiles
            /\ zipBuffer.entries[i].content.kind # "malformed")
           => flowDetails.parsedXml = zipBuffer.entries[i].content

(* an archive with two matching entries of different content was unpacked  *)
(* and the first one came back                                             *)
C3_Witness ==
  /\ Unpacked
  /\ \E i, j \in iflwEntries :
       /\ i < j
       /\ \A k \in iflwEntries : i <= k
       /\ zipBuffer.entries[i].content # zipBuffer.entries[j].content
       /\ zipBuffer.entries[j].content.kind # "malformed"
       /\ flowDetails.parsedXml = zipBuffer.entries[i].content

collaborationLevelTypes == {"CORS", "Exception Handling", "Security Logging", "Debug Security"}
(* the collaboration properties the security extractor turns into records *)
securityRelevant(prop) ==
  \/ prop.key = "corsEnabled" /\ prop.value = "true"
  \/ prop.key \in {"returnExceptionToSender", "log", "ServerTrace"}
fetchedCollaborationProps == getCollaborationProperties(flowDetails.parsedXml)

(* C4 as stated: for a document with zero message flows both the adapter   *)
(* list and the security list are empty, whatever the collaboration-level  *)
(* properties.                                                             *)
C4_NoFlowsNothingExtracted ==
  (AfterExtractSecurity /\ Len(fetchedFlows) = 0) =>
    adapters = <<>> /\ securityMechanisms = <<>>

(* C4, amended: for a document with zero message flows the adapter list is *)
(* empty and the security list holds exactly one collaboration-level       *)
(* record per security-relevant collaboration property (corsEnabled =      *)
(* true, returnExceptionToSender, log, ServerTrace), so it is empty when   *)
(* the collaboration has none.                                             *)
C4_NoFlowsOnlyCollaborationRecords ==
  (AfterExtractSecurity /\ Len(fetchedFlows) = 0) =>
    /\ adapters = <<>>
    /\ \A k \in 1..Len(securityMechanisms) :
         securityMechanisms[k].mechanism_type \in collaborationLevelTypes
    /\ Len(securityMechanisms) =
         Cardinality({i \in 1..Len(fetchedCollaborationProps) :
                        securityRelevant(fetchedCollaborationProps[i])})

(* a document without message flows whose collaboration enables CORS has   *)
(* been through both extractors                                            *)
C4_Witness ==
  /\ AfterExtractSecurity
  /\ flowDetails.parsedXml.definitions
  /\ Len(fetchedFlows) = 0
  /\ \E i \in 1..Len(fetchedCollaborationProps) : securityRelevant(fetchedCollaborationProps[i])
  /\ adapters = <<>>
  /\ Len(securityMechanisms) = 1

hasProperty(flow, key) == \E k \in 1..Len(flow.ext.props) : flow.ext.props[k].key = key
authValueOf(flow) ==
  IF propertyOf(flow, "direction") = "Sender" THEN propertyOf(flow, "senderAuthType")
  ELSE IF propertyOf(flow, "direction") = "Receiver" THEN propertyOf(flow, "authenticationMethod")
  ELSE ""
authenticated(flow) == authValueOf(flow) \notin {"", "None"}
csrfEnabled(flow) == propertyOf(flow, "isCSRFEnabled") = "true"
certificateAlias(flow) ==
  /\ propertyOf(flow, "direction") = "Receiver"
  /\ propertyOf(flow, "privateKeyAlias") # "" \/ propertyOf(flow, "odataCertAuthPrivateKeyAlias") # ""
xsrfDisabled(flow) ==
  propertyOf(flow, "direction") = "Sender" /\ propertyOf(flow, "xsrfProtection") = "0"
roleBound(flow) == propertyOf(flow, "direction") = "Sender" /\ propertyOf(flow, "userRole") # ""
One(b) == IF b THEN 1 ELSE 0
(* number of security records a fragment stands for: one per detected feature *)
featureCount(flow) ==
  One(authenticated(flow)) + One(csrfEnabled(flow)) + One(certificateAlias(flow))
    + One(xsrfDisabled(flow)) + One(roleBound(flow))
(* number of security records standing for the fragments before fragment i *)
RECURSIVE recordsBefore(_)
recordsBefore(i) == IF i <= 1 THEN 0 ELSE recordsBefore(i - 1) + featureCount(fetchedFlows[i - 1])
collaborationRecordCount ==
  Cardinality({i \in 1..Len(fetchedCollaborationProps) :
                 securityRelevant(fetchedCollaborationProps[i])})
(* the list holds one record per detected feature and collaboration signal *)
oneRecordPerFeature(list) ==
  Len(list) = recordsBefore(Len(fetchedFlows) + 1) + collaborationRecordCount

(* Sender fragment with a Name and a senderAuthType containing "Basic",    *)
(* without isCSRFEnabled, xsrfProtection or userRole property              *)
basicSender(flow) ==
  /\ propertyOf(flow, "direction") = "Sender"
  /\ propertyOf(flow, "Name") # ""
  /\ includes(propertyOf(flow, "senderAuthType"), "Basic")
  /\ ~hasProperty(flow, "isCSRFEnabled")
  /\ ~hasProperty(flow, "xsrfProtection")
  /\ ~hasProperty(flow, "userRole")
(* the one processed record of fragment i is a Basic Authentication record *)
(* with the given name                                                     *)
basicRecordOf(i, name) ==
  /\ featureCount(fetchedFlows[i]) = 1
  /\ recordsBefore(i) + 1 <= Len(processedSecurity)
  /\ processedSecurity[recordsBefore(i) + 1].mechanism_name = name
  /\ processedSecurity[recordsBefore(i) + 1].mechanism_type = "Basic Authentication"
  /\ processedSecurity[recordsBefore(i) + 1].direction = "Inbound"

(* C6 as stated: every Sender fragment with Name N and a senderAuthType A  *)
(* containing "Basic" (no isCSRFEnabled, xsrfProtection, userRole) ends up *)
(* as exactly one processed record, named N_A, of type Basic               *)
(* Authentication and direction Inbound.                                   *)
C6_BasicSenderRecord ==
  AfterProcessSecurity =>
    /\ oneRecordPerFeature(processedSecurity)
    /\ \A i \in 1..Len(fetchedFlows) :
         basicSender(fetchedFlows[i]) =>
           basicRecordOf(i, propertyOf(fetchedFlows[i], "Name") \o "_"
                              \o propertyOf(fetchedFlows[i], "senderAuthType"))

(* N_A without surrounding whitespace, cut to 255 characters *)
sanitizedName(name) ==
  IF Len(trim(name)) > 255 THEN SubSeq(trim(name), 1, 255) ELSE trim(name)

(* C6, amended: such a fragment whose A contains neither                   *)
(* "ClientCertificate" nor "Client Certificate" ends up as exactly one     *)
(* processed record, of type Basic Authentication and direction Inbound,   *)
(* named N_A with surrounding whitespace removed and cut to 255 characters.*)
C6_BasicSenderRecordSanitized ==
  AfterProcessSecurity =>
    /\ oneRecordPerFeature(processedSecurity)
    /\ \A i \in 1..Len(fetchedFlows) :
         (/\ basicSender(fetchedFlows[i])
          /\ ~includes(propertyOf(fetchedFlows[i], "senderAuthType"), "ClientCertificate")
          /\ ~includes(propertyOf(fetchedFlows[i], "senderAuthType"), "Client Certificate"))
           => basicRecordOf(i, sanitizedName(propertyOf(fetchedFlows[i], "Name") \o "_"
                                               \o propertyOf(fetchedFlows[i], "senderAuthType")))

(* a Basic sender fragment that is not the first fragment of its document  *)
(* has been extracted and processed                                        *)
C6_Witness ==
  /\ AfterProcessSecurity
  /\ \E i \in 2..Len(fetchedFlows) :
       /\ basicSender(fetchedFlows[i])
       /\ recordsBefore(i) > 0
       /\ basicRecordOf(i, propertyOf(fetchedFlows[i], "Name") \o "_"
                             \o propertyOf(fetchedFlows[i], "senderAuthType"))

csrfRecordCount ==
  Cardinality({k \in 1..Len(securityMechanisms) :
                 securityMechanisms[k].mechanism_type = "CSRF Protection"})

fetchedProcesses ==
  IF flowDetails.parsedXml.definitions THEN flowDetails.parsedXml.processes ELSE <<>>
isErrorSubprocess(sub) == includes(getPropertyValue(sub.ext.props, "activityType"), "Error")
expectedClassification(sub) ==
  IF \E e \in 1..Len(sub.endEvents) : sub.endEvents[e].messageEventDefinition
    THEN {"Response-based"}
    ELSE {"Escalation-based", "Standard", "Basic"}
(* sub is recorded, with its classification, under the process with this id *)
recordedUnder(processId, sub) ==
  LET details == errorHandling.error_handling_details.processDetails IN
    \E d \in 1..Len(details) :
      /\ details[d].key = processId
      /\ \E r \in 1..Len(details[d].val.errorSubprocesses) :
           /\ details[d].val.errorSubprocesses[r].id = sub.id
           /\ details[d].val.errorSubprocesses[r].classification \in expectedClassification(sub)

(* C8: when some process of the document has a subprocess whose            *)
(* activityType contains "Error", extractErrorHandling returns             *)
(* detection_enabled and classification_enabled true and records every     *)
(* such subprocess under its process with its classification, whatever the *)
(* collaboration-level properties.                                         *)
C8_ErrorSubprocessDetected ==
  AfterExtractErrorHandling =>
    \A p \in 1..Len(fetchedProcesses) :
      \A q \in 1..Len(fetchedProcesses[p].subProcesses) :
        isErrorSubprocess(fetchedProcesses[p].subProcesses[q]) =>
          /\ errorHandling.detection_enabled
          /\ errorHandling.classification_enabled
          /\ recordedUnder(fetchedProcesses[p].id, fetchedProcesses[p].subProcesses[q])

namesJms(key) ==
  LET k == toLowerCase(key) IN includes(k, "jms") \/ includes(k, "queue") \/ includes(k, "topic")
componentTypeOf(flow) == toLowerCase(propertyOf(flow, "ComponentType"))
jmsAdapters == persistence.persistence_details.jmsAdapters
(* position, among the fragments of S, of fragment i *)
rank(S, i) == Cardinality({j \in S : j <= i})
(* the k-th JMS record is the one of fragment i and carries its jms-, queue- *)
(* and topic-named properties                                              *)
jmsRecordOf(k, i) ==
  /\ jmsAdapters[k].name = fragmentName(i)
  /\ jmsAdapters[k].type = "JMS"
  /\ \A n \in 1..Len(fetchedFlows[i].ext.props) :
       LET prop == fetchedFlows[i].ext.props[n] IN
         namesJms(prop.key) =>
           /\ hasKey(jmsAdapters[k].properties, prop.key)
           /\ objGet(jmsAdapters[k].properties, prop.key) = Str(propertyOf(fetchedFlows[i], prop.key))
oneJmsRecordEach(S) ==
  /\ Len(jmsAdapters) = Cardinality(S)
  /\ \A i \in S : jmsRecordOf(rank(S, i), i)
  /\ S # {} => persistence.jms_enabled

keptFragments ==
  {i \in 1..Len(fetchedFlows) :
     /\ fetchedFlows[i].ext.shape # "none"
     /\ ~(/\ propertyOf(fetchedFlows[i], "ComponentType") \in {"", "Unknown"}
          /\ propertyOf(fetchedFlows[i], "direction") \in {"", "Unknown"})}
orUnknown(value) == IF value = "" THEN "Unknown" ELSE value

(* C10: the adapter extractor skips a fragment exactly when it has no      *)
(* extension block or when both its ComponentType and its direction are    *)
(* absent or "Unknown"; every other fragment yields exactly one adapter    *)
(* record, and the records are in the order of their fragments.            *)
C10_SkipExactlyUnknownFragments ==
  AfterExtractAdapters =>
    /\ Len(adapters) = Cardinality(keptFragments)
    /\ \A i \in keptFragments :
         LET adapter == adapters[rank(keptFragments, i)] IN
           /\ adapter.adapter_name = fragmentName(i)
           /\ adapter.adapter_type = orUnknown(propertyOf(fetchedFlows[i], "ComponentType"))
           /\ adapter.adapter_category = orUnknown(propertyOf(fetchedFlows[i], "direction"))

(* a document whose first fragment has an extension block but neither a    *)
(* known ComponentType nor a known direction, followed by a fragment with  *)
(* only one of the two, has been through the adapter extractor             *)
C10_Witness ==
  /\ AfterExtractAdapters
  /\ Len(fetchedFlows) = 2
  /\ fetchedFlows[1].ext.shape # "none"
  /\ keptFragments = {2}
  /\ propertyOf(fetchedFlows[2], "ComponentType") = ""
  /\ Len(adapters) = 1
  /\ adapters[1].adapter_name = fragmentName(2)

-----------------------------------------------------------------------------
(* the security types the processor is said to produce *)
CanonicalTypes ==
  { "OAuth", "Basic Authentication", "Client Certificate", "SAML", "JWT",
    "CSRF Protection", "XSRF Protection", "CORS", "Role-Based Authorization",
    "Exception Handling", "Security Logging", "Debug Security", "Unknown" }

(* C11 as stated: every processed security record has a mechanism_type of  *)
(* the closed set of canonical types; a raw type that matches no mapping   *)
(* entry comes out as Unknown, not as the raw string.                      *)
C11_TypeInClosedSet ==
  AfterProcessSecurity =>
    \A k \in 1..Len(processedSecurity) :
      processedSecurity[k].mechanism_type \in CanonicalTypes

(* the security records extraction emitted for fragment i *)
recordsOf(i) ==
  { k \in 1..Len(securityMechanisms) :
      /\ k > recordsBefore(i)
      /\ k <= recordsBefore(i) + featureCount(fetchedFlows[i]) }
(* Receiver fragment whose authenticationMethod yields a Client            *)
(* Certificate record and that also carries a private-key alias            *)
certificateTwice(flow) ==
  /\ certificateAlias(flow)
  /\ authenticated(flow)
  /\ normalizeAuthMethod(authValueOf(flow)) = "Client Certificate"

(* C12 as stated: for a Receiver fragment whose authenticationMethod       *)
(* yields a Client Certificate record and that also has a privateKeyAlias  *)
(* or odataCertAuthPrivateKeyAlias, extraction emits exactly one Client    *)
(* Certificate record, the one of the authentication method.               *)
C12_OneClientCertificateRecord ==
  AfterExtractSecurity =>
    \A i \in 1..Len(fetchedFlows) :
      certificateTwice(fetchedFlows[i]) =>
        LET certs == { k \in recordsOf(i) :
                         securityMechanisms[k].mechanism_type = "Client Certificate" }
        IN  /\ Cardinality(certs) = 1
            /\ \A k \in certs :
                 securityMechanisms[k].mechanism_name =
                   fragmentName(i) \o "_" \o authValueOf(fetchedFlows[i])

collaborationValue(key) == getPropertyValue(fetchedCollaborationProps, key)

(* C13 as stated: after extraction, reporting_enabled is true when the     *)
(* collaboration has returnExceptionToSender = "true", logging_enabled is  *)
(* true when its log property is non-empty and not "None", and             *)
(* detection_enabled is true when ServerTrace = "true".                    *)
C13_CollaborationSignals ==
  AfterExtractErrorHandling =>
    /\ collaborationValue("returnExceptionToSender") = "true"
         => errorHandling.reporting_enabled
    /\ collaborationValue("log") \notin {"", "None"}
         => errorHandling.logging_enabled
    /\ collaborationValue("ServerTrace") = "true"
         => errorHandling.detection_enabled

(* the four flags of an error-handling aggregate, of a persistence aggregate *)
errorHandlingFlags(eh) ==
  <<eh.detection_enabled, eh.logging_enabled, eh.classification_enabled, eh.reporting_enabled>>
persistenceFlags(ps) ==
  <<ps.jms_enabled, ps.data_store_enabled, ps.variables_enabled, ps.message_persistence_enabled>>
AllFalse == <<FALSE, FALSE, FALSE, FALSE>>
(* a subtree the extractors stumble over: a collaboration property that    *)
(* makes extractCollaborationErrorHandling throw, or a subprocess with a   *)
(* single extension property                                               *)
stumbles(px) ==
  \/ collaborationErrorHandlingThrows(px)
  \/ \E p \in 1..Len(px.processes) :
       \E q \in 1..Len(px.processes[p].subProcesses) :
         px.processes[p].subProcesses[q].ext.shape = "single"

RECURSIVE syncedFlows(_)
syncedFlows(log) ==
  IF log = <<>> THEN <<>>
  ELSE IF Head(log).outcome = "synced"
    THEN <<Head(log).flowData>> \o syncedFlows(Tail(log))
    ELSE syncedFlows(Tail(log))
(* an archive no document can be read from, whatever the debug writes do *)
unreadable(flowData) == extractXmlFromZip(flowData.zip, TRUE, TRUE) = NullXml

(* C15: in syncPackageIntegrationFlows a flow whose archive cannot be      *)
(* unpacked or parsed, or for which a later step raises, is skipped: it    *)
(* leaves no record, the records of the flows before it are kept, the call *)
(* returns only once every flow of the package has been visited, and what  *)
(* it returns are the records of the flows that went through, in order.    *)
C15_FailedFlowSkipped ==
  /\ pc = "done" => flowsData = <<>>
  /\ Len(iflowRecords) = Len(syncedFlows(flowLog))
  /\ \A k \in 1..Len(iflowRecords) : iflowRecords[k].flowData = syncedFlows(flowLog)[k]
  /\ \A k \in 1..Len(flowLog) :
       /\ flowLog[k].flowData.Id = "" => flowLog[k].outcome = "no id"
       /\ flowLog[k].flowData.Id # "" /\ unreadable(flowLog[k].flowData)
            => flowLog[k].outcome = "no document"
       /\ flowLog[k].outcome \in {"no id", "no document", "storage failed", "synced"}

(* the call has returned after a flow without document, then a flow for    *)
(* which a storage step raised, then a flow that went through              *)
C15_Witness ==
  /\ pc = "done"
  /\ Len(flowLog) = 3
  /\ flowLog[1].outcome = "no document"
  /\ flowLog[2].outcome = "storage failed"
  /\ flowLog[3].outcome = "synced"
  /\ Len(iflowRecords) = 1

(* the same document with every single-property extension block written   *)
(* as a one-element list                                                   *)
asList(ext) == IF ext.shape = "single" THEN [ext EXCEPT !.shape = "list"] ELSE ext
listExts(nodes) == [i \in 1..Len(nodes) |-> [nodes[i] EXCEPT !.ext = asList(nodes[i].ext)]]
listProcess(process) ==
  [process EXCEPT !.ext = asList(process.ext),
                  !.subProcesses = listExts(process.subProcesses),
                  !.serviceTasks = listExts(process.serviceTasks),
                  !.scriptTasks = listExts(process.scriptTasks)]
asLists(px) ==
  [px EXCEPT !.collaborationExt = asList(px.collaborationExt),
             !.messageFlows = listExts(px.messageFlows),
             !.processes = [i \in 1..Len(px.processes) |-> listProcess(px.processes[i])]]

(* C16 as stated: a container holding one child gives the same results as  *)
(* the one-element list of that child: the four extraction results of a    *)
(* document equal those of the same document with its single-property      *)
(* extension blocks written as lists, and a subprocess whose extension     *)
(* block holds the single property activityType containing "Error" is      *)
(* recorded as an error subprocess.                                        *)
C16_SingleAsList ==
  AfterExtractPersistence =>
    /\ adapters = extractAdapters(asLists(flowDetails.parsedXml))
    /\ securityMechanisms = extractSecurity(asLists(flowDetails.parsedXml), flowDetails.id)
    /\ errorHandling = extractErrorHandling(asLists(flowDetails.parsedXml))
    /\ persistence = extractPersistence(asLists(flowDetails.parsedXml))
    /\ \A p \in 1..Len(fetchedProcesses) :
         \A q \in 1..Len(fetchedProcesses[p].subProcesses) :
           /\ fetchedProcesses[p].subProcesses[q].ext.shape = "single"
           /\ isErrorSubprocess(fetchedProcesses[p].subProcesses[q])
           => recordedUnder(fetchedProcesses[p].id, fetchedProcesses[p].subProcesses[q])

(* C17 as stated: a collaboration property processType = "ProcessDirect"   *)
(* gives details.directCall = true and details.processType =               *)
(* "ProcessDirect" in the extractPersistence result, a collaboration       *)
(* property transactionalHandling = V gives details.transactionalHandling  *)
(* = V, and processPersistence keeps these values.                         *)
C17_CollaborationValuesInDetails ==
  AfterExtractPersistence =>
    LET details == persistence.persistence_details
        kept == processPersistence(persistence).persistence_details
    IN  /\ collaborationValue("processType") = "ProcessDirect" =>
             /\ details.directCall = TRUE
             /\ details.processType = "ProcessDirect"
             /\ kept.directCall = TRUE
             /\ kept.processType = "ProcessDirect"
        /\ collaborationValue("transactionalHandling") # "" =>
             /\ details.transactionalHandling = collaborationValue("transactionalHandling")
             /\ kept.transactionalHandling = collaborationValue("transactionalHandling")

(* the persistence aggregate after the collaboration source, and after the *)
(* process source, of the document being processed                         *)
afterCollaborationSource ==
  assignCollaboration(getDefaultPersistence,
                      extractCollaborationPersistence(flowDetails.parsedXml))
afterProcessSource ==
  mergePersistenceDetails(afterCollaborationSource,
                          extractProcessPersistence(flowDetails.parsedXml))
DetailLists ==
  { "jmsAdapters", "messagePersistence", "dataStoreOperations", "dataStoreActivities",
    "variableOperations", "externalCalls" }

(* C18: persistence merging is additive. Every detail list of the result   *)
(* is the records of the process-level scan followed by those of the       *)
(* adapter-level scan, so that every record a source contributed is still  *)
(* there, and a flag that is true after one source is true after every     *)
(* later merge and in the result. Stated of the aggregate as               *)
(* extractPersistence has just returned it.                                *)
C18_MergeAdditive ==
  pc = "syncIflow" /\ flowDetails.parsedXml.definitions =>
    LET fromProcess == extractProcessPersistence(flowDetails.parsedXml)
        fromAdapters == extractAdapterPersistence(flowDetails.parsedXml)
        first == persistenceFlags(afterCollaborationSource)
        second == persistenceFlags(afterProcessSource)
        last == persistenceFlags(persistence)
    IN  /\ \A f \in DetailLists :
             persistence.persistence_details[f] = fromProcess[f] \o fromAdapters[f]
        /\ \A k \in 1..4 : (first[k] => second[k]) /\ (second[k] => last[k])

(* all three sources have contributed: the collaboration a true flag, the  *)
(* process scan and the adapter scan records                               *)
C18_Witness ==
  /\ pc = "syncIflow"
  /\ flowDetails.parsedXml.definitions
  /\ afterCollaborationSource.message_persistence_enabled
  /\ Len(extractProcessPersistence(flowDetails.parsedXml).dataStoreActivities) > 0
  /\ Len(extractAdapterPersistence(flowDetails.parsedXml).jmsAdapters) > 0
  /\ persistence.data_store_enabled
  /\ persistence.jms_enabled

(* C19 as stated: for an archive whose first definition entry is readable  *)
(* and well-formed, extractXmlFromZip returns the parsed document whether  *)
(* the writes of <flowId>.zip and <flowId>.iflw to the debug directory     *)
(* succeed or fail.                                                        *)
C19_DebugWritesOptional ==
  Unpacked /\ zipBuffer.valid =>
    \A i \in iflwEntries :
      ((\A j \in iflwEntries : i <= j)
         /\ zipBuffer.entries[i].readable
         /\ zipBuffer.entries[i].content.kind # "malformed")
        => flowDetails.parsedXml = zipBuffer.entries[i].content

(* positions of the records of a list that have the name and direction of  *)
(* its record at position i                                                *)
samePair(list, i) ==
  { j \in 1..Len(list) :
      /\ list[j].mechanism_name = list[i].mechanism_name
      /\ list[j].direction = list[i].direction }
(* position in the argument of the record the result holds at position k   *)
sourceOf(k) ==
  CHOOSE i \in 1..Len(securityMechanisms) :
    /\ securityMechanisms[i] = processedSecurity[k]
    /\ \A j \in samePair(securityMechanisms, i) : i <= j

(* C20: the result of deduplicateSecurityMechanisms holds exactly one      *)
(* record for each (mechanism_name, direction) pair of its argument, that  *)
(* record is the first of the argument with the pair, the kept records     *)
(* stand in the order they had in the argument, and applying the function  *)
(* to its own result changes nothing.                                      *)
C20_DeduplicateFirstOccurrence ==
  /\ pc = "deduplicated" =>
       /\ \A i \in 1..Len(securityMechanisms) :
            \E k \in 1..Len(processedSecurity) :
              /\ processedSecurity[k].mechanism_name = securityMechanisms[i].mechanism_name
              /\ processedSecurity[k].direction = securityMechanisms[i].direction
       /\ \A k \in 1..Len(processedSecurity) :
            /\ samePair(processedSecurity, k) = {k}
            /\ \E i \in 1..Len(securityMechanisms) :
                 /\ securityMechanisms[i] = processedSecurity[k]
                 /\ \A j \in samePair(securityMechanisms, i) : i <= j
       /\ \A k, l \in 1..Len(processedSecurity) : k < l => sourceOf(k) < sourceOf(l)
  /\ pc = "deduplicatedAgain" => processedSecurity = securityMechanisms

(* a list of three records was deduplicated whose first and last record    *)
(* share name and direction but differ in type                             *)
C20_Witness ==
  /\ pc = "deduplicated"
  /\ Len(securityMechanisms) = 3
  /\ samePair(securityMechanisms, 1) = {1, 3}
  /\ securityMechanisms[1] # securityMechanisms[3]
  /\ processedSecurity = <<securityMechanisms[1], securityMechanisms[2]>>

-----------------------------------------------------------------------------
(* the classification the end events of a subprocess stand for *)
classOfEnds(sub) ==
  IF \E e \in 1..Len(sub.endEvents) : sub.endEvents[e].messageEventDefinition
    THEN "Response-based"
  ELSE IF \E e \in 1..Len(sub.endEvents) : sub.endEvents[e].escalationEventDefinition
    THEN "Escalation-based"
  ELSE IF Len(sub.endEvents) > 0 THEN "Standard"
  ELSE "Basic"
(* the error subprocess records extractErrorHandling returned for a process *)
errorRecordsOf(processId) ==
  LET details == errorHandling.error_handling_details.processDetails IN
    IF hasKey(details, processId) THEN objGet(details, processId).errorSubprocesses ELSE <<>>

(* C21: the classification of a recorded error subprocess is decided by    *)
(* its end events with a fixed priority: Response-based with any message   *)
(* end event (also beside an escalation end event), else Escalation-based  *)
(* with an escalation end event, else Standard with end events, else       *)
(* Basic; it is always one of these four values.                           *)
C21_ClassificationByEndEvents ==
  pc = "extractPersistence" =>
    \A p \in 1..Len(fetchedProcesses) :
      /\ \A r \in 1..Len(errorRecordsOf(fetchedProcesses[p].id)) :
           errorRecordsOf(fetchedProcesses[p].id)[r].classification
             \in {"Response-based", "Escalation-based", "Standard", "Basic"}
      /\ \A q \in 1..Len(fetchedProcesses[p].subProcesses) :
           \A r \in 1..Len(errorRecordsOf(fetchedProcesses[p].id)) :
             errorRecordsOf(fetchedProcesses[p].id)[r].id = fetchedProcesses[p].subProcesses[q].id
               => errorRecordsOf(fetchedProcesses[p].id)[r].classification
                    = classOfEnds(fetchedProcesses[p].subProcesses[q])

(* an error subprocess whose first end event is an escalation end event    *)
(* and whose second is a message end event was recorded as Response-based  *)
C21_Witness ==
  /\ pc = "extractPersistence"
  /\ Len(fetchedProcesses) = 1
  /\ fetchedProcesses[1].subProcesses[1].endEvents = << EscalationEnd, MessageEnd >>
  /\ Len(errorRecordsOf("Process_1")) = 1
  /\ errorRecordsOf("Process_1")[1].classification = "Response-based"

(* C22 as stated: when the collaboration has a transactionalHandling       *)
(* property with a non-empty value other than "None", extractPersistence   *)
(* returns message_persistence_enabled = true, whatever other              *)
(* collaboration properties are present and in whatever order.             *)
C22_TransactionalHandlingEnables ==
  pc = "syncIflow" =>
    ((\E i \in 1..Len(fetchedCollaborationProps) :
        /\ fetchedCollaborationProps[i].key = "transactionalHandling"
        /\ fetchedCollaborationProps[i].value \notin {"", "None"})
       => persistence.message_persistence_enabled)

(* C23: for any list of raw records, processAdapters and                    *)
(* processSecurityMechanisms return a list (they never raise): the records  *)
(* lacking a name or a type are dropped, the others are processed in their  *)
(* input order, and every output record has a non-empty name and a          *)
(* non-empty type.                                                          *)
completeAdapters == SelectSeq(adapters, LAMBDA a : a.adapter_name # "" /\ a.adapter_type # "")
completeMechanisms ==
  SelectSeq(securityMechanisms, LAMBDA m : m.mechanism_name # "" /\ m.mechanism_type # "")
C23_IncompleteRecordsDropped ==
  /\ pc = "adaptersProcessed" =>
       /\ Len(processedAdapters) = Len(completeAdapters)
       /\ \A k \in 1..Len(processedAdapters) :
            /\ processedAdapters[k].adapter_name = trim(completeAdapters[k].adapter_name)
            /\ processedAdapters[k].adapter_name # ""
            /\ processedAdapters[k].adapter_type # ""
  /\ pc = "securityProcessed" =>
       /\ Len(processedSecurity) = Len(completeMechanisms)
       /\ \A k \in 1..Len(processedSecurity) :
            /\ processedSecurity[k].mechanism_name = trim(completeMechanisms[k].mechanism_name)
            /\ processedSecurity[k].mechanism_name # ""
            /\ processedSecurity[k].mechanism_type # ""

(* C24: each of the four *_enabled flags of the result of                   *)
(* processErrorHandling and of processPersistence is a strict boolean, and  *)
(* an input flag that denotes false (false, "false", absent) never comes    *)
(* out as true.                                                             *)
DenotesFalse == {Bool(FALSE), Str("false"), Undefined, Null}
coercedStrictly(raw, processed) ==
  \A f \in EnabledFlags(raw) :
    /\ processed[f] \in {Bool(TRUE), Bool(FALSE)}
    /\ raw[f] \in DenotesFalse => processed[f] # Bool(TRUE)
C24_FlagsStrictBooleans ==
  /\ pc = "errorHandlingProcessed" => coercedStrictly(errorHandling, processedErrorHandling)
  /\ pc = "persistenceProcessed" => coercedStrictly(persistence, processedPersistence)

(* C25: the direction of every record the Security Processor emits is       *)
(* Inbound or Outbound. An explicit direction that already is Inbound or    *)
(* Outbound is kept; otherwise substring heuristics on the type string      *)
(* decide, and when none applies the direction is Inbound.                  *)
InboundWords == {"sender", "authorization", "cors", "exception handling", "logging"}
OutboundWords == {"receiver", "csrf"}
typeHasWord(mechanism, words) ==
  \E w \in words : includes(toLowerCase(mechanism.mechanism_type), w)
explicitDirection(mechanism) == trim(mechanism.direction) \in {"Inbound", "Outbound"}
C25_SecurityDirection ==
  pc = "securityProcessed" =>
    /\ Len(processedSecurity) = Len(completeMechanisms)
    /\ \A k \in 1..Len(processedSecurity) :
         LET raw == completeMechanisms[k]
             direction == processedSecurity[k].direction
         IN  /\ direction \in {"Inbound", "Outbound"}
             /\ explicitDirection(raw) => direction = trim(raw.direction)
             /\ (~explicitDirection(raw) /\ typeHasWord(raw, InboundWords))
                  => direction = "Inbound"
             /\ ( ~explicitDirection(raw)
                  /\ ~typeHasWord(raw, InboundWords)
                  /\ typeHasWord(raw, OutboundWords) )
                  => direction = "Outbound"
             /\ ( ~explicitDirection(raw)
                  /\ ~typeHasWord(raw, InboundWords \cup OutboundWords
                                          \cup {"client certificate"}) )
                  => direction = "Inbound"
C25_Witness ==
  /\ pc = "securityProcessed"
  /\ Len(processedSecurity) = 2
  /\ securityMechanisms[1].mechanism_type = "CORS"
  /\ securityMechanisms[1].direction = " Outbound "
  /\ processedSecurity[1].direction = "Outbound"
  /\ securityMechanisms[2].direction = ""
  /\ securityMechanisms[2].mechanism_type = "JWT"
  /\ processedSecurity[2].direction = "Inbound"

(* C26: the direction of every record the Adapter Processor emits is one of *)
(* Sender, Receiver, Unknown; it is resolved from the explicit direction,   *)
(* then the category, then substring heuristics on the adapter type, and    *)
(* is Unknown when none of them decides.                                    *)
AdapterDirections == {"Sender", "Receiver", "Unknown"}
C26_AdapterDirectionClosed ==
  pc = "adaptersProcessed" =>
    \A k \in 1..Len(processedAdapters) :
      processedAdapters[k].direction \in AdapterDirections

(* C27: in the result of extractPersistence, jms_enabled is true exactly    *)
(* when jmsAdapters is non-empty, data_store_enabled exactly when           *)
(* dataStoreOperations or dataStoreActivities is non-empty,                 *)
(* variables_enabled exactly when variableOperations is non-empty, and a    *)
(* non-empty messagePersistence list implies message_persistence_enabled.   *)
C27_FlagsMatchLists ==
  pc = "syncIflow" =>
    LET details == persistence.persistence_details IN
      /\ persistence.jms_enabled <=> Len(details.jmsAdapters) > 0
      /\ persistence.data_store_enabled <=>
           (Len(details.dataStoreOperations) > 0 \/ Len(details.dataStoreActivities) > 0)
      /\ persistence.variables_enabled <=> Len(details.variableOperations) > 0
      /\ Len(details.messagePersistence) > 0 => persistence.message_persistence_enabled
C27_Witness ==
  /\ pc = "syncIflow"
  /\ persistence.jms_enabled
  /\ Len(persistence.persistence_details.jmsAdapters) > 0
  /\ persistence.data_store_enabled
  /\ Len(persistence.persistence_details.dataStoreActivities) > 0
  /\ persistence.variables_enabled
  /\ Len(persistence.persistence_details.messagePersistence) > 0

(* C28: in the result of extractPersistence, jms_enabled = true implies     *)
(* message_persistence_enabled = true: every JMS adapter record comes with  *)
(* a message-persistence record of the same fragment, and the adapter-level *)
(* merge runs after the collaboration-level flags were assigned.            *)
collaborationSays(key, value) ==
  \E i \in 1..Len(getCollaborationProperties(flowDetails.parsedXml)) :
    /\ getCollaborationProperties(flowDetails.parsedXml)[i].key = key
    /\ getCollaborationProperties(flowDetails.parsedXml)[i].value = value
C28_JmsImpliesMessagePersistence ==
  pc = "syncIflow" =>
    /\ persistence.jms_enabled => persistence.message_persistence_enabled
    /\ \A i \in 1..Len(persistence.persistence_details.jmsAdapters) :
         \E j \in 1..Len(persistence.persistence_details.messagePersistence) :
           persistence.persistence_details.messagePersistence[j].adapterName
             = persistence.persistence_details.jmsAdapters[i].name
C28_Witness ==
  /\ pc = "syncIflow"
  /\ collaborationSays("persist", "false")
  /\ persistence.jms_enabled
  /\ persistence.message_persistence_enabled

(* C29: after 3 consecutive failed getOAuthToken calls the breaker opens    *)
(* for 5 minutes; a call made while it is open is rejected without a token  *)
(* request and leaves failureCount and openUntil as they were, so that no   *)
(* call made 5 minutes or more after the breaker opened is rejected.        *)
C29_BreakerOpensForFiveMinutes ==
  /\ (lastCall.outcome = "failed" /\ lastCall.after.failureCount = MAX_FAILURES)
       => /\ lastCall.after.isOpen
          /\ lastCall.after.openUntil = lastCall.at + CIRCUIT_BREAKER_TIMEOUT
  /\ lastCall.outcome = "rejected"
       => /\ ~lastCall.requested
          /\ lastCall.after.failureCount = lastCall.before.failureCount
          /\ lastCall.after.openUntil = lastCall.before.openUntil
          /\ lastCall.at < openedAt + CIRCUIT_BREAKER_TIMEOUT

(* C30: one fetchFromApi call sends at most two requests to the endpoint;   *)
(* the second is sent only when the first was answered with status 401 and  *)
(* carries a token obtained after the token cache was cleared, never the    *)
(* rejected one; any other failure, and a failure of the retry, is raised   *)
(* to the caller.                                                           *)
lastStatus == fetch.requests[Len(fetch.requests)].status
C30_RetryAtMostOnce ==
  /\ Len(fetch.requests) <= 2
  /\ fetch.stage = "retry" =>
       /\ Len(fetch.requests) = 1
       /\ fetch.requests[1].status = 401
       /\ fetch.token > fetch.requests[1].token
  /\ Len(fetch.requests) = 2 =>
       /\ fetch.requests[1].status = 401
       /\ fetch.requests[2].token > fetch.requests[1].token
       /\ fetch.stage \in {"returned", "raised"}
  /\ fetch.stage = "returned" => lastStatus = 200
  /\ fetch.stage = "raised" => (fetch.requests = <<>> \/ lastStatus # 200)
  /\ (Len(fetch.requests) = 1 /\ lastStatus = 500) => fetch.stage = "raised"
  /\ (Len(fetch.requests) = 1 /\ lastStatus = 200) => fetch.stage = "returned"
C30_Witness ==
  /\ fetch.stage = "raised"
  /\ Len(fetch.requests) = 2
  /\ fetch.requests[1].token < tokenRequests
  /\ fetch.requests[2].token = tokenRequests
  /\ lastStatus = 401

=============================================================================
